---- MODULE Spec2Model ----
(***************************************************************************)
(* State-machine model of the sphinx-tribes backend handlers: the          *)
(* relational store is the state, every handler / data-access function is *)
(* one atomic action, and `last` records the request just served together  *)
(* with the response it produced.                                          *)
(***************************************************************************)
EXTENDS Integers, Sequences, FiniteSets, TLC

VARIABLES
    workspaces,      \* workspace rows, keyed by uuid
    workspaceUsers,  \* workspace_users rows in insertion order
    userRoles,       \* workspace_user_roles rows: {[owner_pubkey, workspace_uuid, role]}
    features,        \* workspace_features rows, keyed by uuid
    phases,          \* feature_phases rows, keyed by uuid
    stories,         \* feature_stories rows, keyed by uuid
    tickets,         \* tickets rows, keyed by uuid (primary key)
    bounties,        \* bounty rows in insertion order; the row id is the index
    chatMessages,    \* chat_messages rows, keyed by id
    invoices,        \* invoice rows, keyed by payment request
    budgets,         \* the total budget of each workspace, keyed by workspace uuid
    procs,           \* the requests in progress: where each one is and what it holds
    now,             \* the wall clock read by time.Now()
    last             \* the request served last and its response

vars == <<workspaces, workspaceUsers, userRoles, features, phases, stories,
          tickets, bounties, chatMessages, invoices, budgets, procs, now, last>>

\* ------------------------------------------------------------------ bounds

\* time.Now() is read at most MaxClock times in a behaviour
MaxClock == 3
\* the bounty rows a metric query is run over, at most
MaxBounties == 2

\* ------------------------------------------------------- values and inputs

NoKey == ""                    \* no pubkey in the request context
Pubkeys == {"alice", "bob"}    \* authenticated callers
Callers == Pubkeys \cup {NoKey}

NilUuid == "00000000-0000-0000-0000-000000000000"   \* uuid.Nil
NilPtr == "<nil>"                                    \* a nil pointer field
TicketUuids == {"U1", "U2"}
GhostTicketUuid == "U9"        \* a well-formed uuid no upsert ever uses

EmptyStore == [x \in {} |-> x]

\* two requests can be in progress at once
Processes == {1, 2}
Other(p) == CHOOSE q \in Processes : q /= p
Idle == [pc |-> "idle"]
AllIdle == [p \in Processes |-> Idle]

\* the response/request record every action leaves in `last`
Served(op, caller, req, code, err, result) ==
    [op |-> op, caller |-> caller, req |-> req, code |-> code, err |-> err,
     result |-> result]

NoResult == "none"

\* --------------------------------------------------------- workspace rows

\* A name is its text without the surrounding white space, the length of
\* that text, and the number of white-space characters around it.
MaxNameLen == 20
MaxDescriptionLen == 120

Name(text, len, pad) == [text |-> text, len |-> len, pad |-> pad]
TrimSpace(name) == [name EXCEPT !.pad = 0]
GoLen(name) == name.len + name.pad

EmptyName == Name("", 0, 0)
NameA == Name("alpha", 5, 0)
NameB == Name("beta", 4, 0)
PaddedNameA == Name("alpha", 5, 2)
LongName == Name("a-very-long-workspace", MaxNameLen + 1, 0)

ShortDescription == Name("about", 5, 0)
LongDescription == Name("a-very-long-description", MaxDescriptionLen + 1, 0)

GithubOk == "https://github.com/test"
GithubBad == "https://gitlab.com/test"
ContainsGithub(url) == url = GithubOk

EditOrg == "EDIT ORGANIZATION"
AddUser == "ADD USER"
AddRoles == "ADD ROLES"

People == Pubkeys \cup {"carol"}          \* the pubkeys with a row in the people table
Stranger == "zed"              \* a pubkey with no row in the people table

SuppliedWorkspaceUuid == "W1"  \* the uuid request bodies carry
GeneratedWorkspaceUuids == {"X1"}   \* the ids xid.New() hands out
GhostWorkspaceUuid == "non-existent-uuid"

ZeroWorkspace ==
    [id |-> 0, uuid |-> "", owner_pubkey |-> "", name |-> EmptyName,
     description |-> EmptyName, github |-> ""]

Malformed == [malformed |-> TRUE]   \* a body the JSON decoder rejects

WorkspaceBody(uuid, owner, name, description, github, id) ==
    [id |-> id, uuid |-> uuid, owner_pubkey |-> owner, name |-> name,
     description |-> description, github |-> github]

\* the workspace bodies callers send: every owner/uuid/name combination of a
\* plain body, and one body for each way a field can be out of range
PlainWorkspaceBodies ==
    {WorkspaceBody(u, o, n, ShortDescription, "", 0) :
        u \in {"", SuppliedWorkspaceUuid}, o \in Pubkeys, n \in {NameA, NameB}}
    \ {WorkspaceBody("", o, NameB, ShortDescription, "", 0) : o \in Pubkeys}
OddWorkspaceBodies ==
    {WorkspaceBody(SuppliedWorkspaceUuid, "alice", n, ShortDescription, "", 0) :
        n \in {EmptyName, PaddedNameA, LongName}}
    \cup {WorkspaceBody(SuppliedWorkspaceUuid, "", NameA, ShortDescription, "", 0),
          WorkspaceBody(SuppliedWorkspaceUuid, "alice", NameA, LongDescription, "", 0),
          WorkspaceBody(SuppliedWorkspaceUuid, "alice", NameA, ShortDescription, GithubBad, 0),
          WorkspaceBody(SuppliedWorkspaceUuid, "alice", NameA, ShortDescription, "", 1)}
WorkspaceBodies == PlainWorkspaceBodies \cup OddWorkspaceBodies \cup {Malformed}

\* db.GetWorkspaceByUuid: the row with that uuid, or the zero value
GetWorkspaceByUuid(uuid) ==
    IF uuid \in DOMAIN workspaces THEN workspaces[uuid] ELSE ZeroWorkspace

\* db.GetWorkspaceByName: a row with that name, or the zero value
GetWorkspaceByName(name) ==
    IF \E u \in DOMAIN workspaces : workspaces[u].name = name
    THEN workspaces[CHOOSE u \in DOMAIN workspaces : workspaces[u].name = name]
    ELSE ZeroWorkspace

\* db.UserHasAccess: the workspace's owner, or a user holding the role on it
UserHasAccess(pubkey, uuid, role) ==
    \/ pubkey = GetWorkspaceByUuid(uuid).owner_pubkey
    \/ [owner_pubkey |-> pubkey, workspace_uuid |-> uuid, role |-> role] \in userRoles

\* db.Validate.Struct on a decoded workspace
ValidateWorkspace(body) == TRUE

\* xid.New(): an id no row carries yet
FreshWorkspaceUuid ==
    CHOOSE u \in GeneratedWorkspaceUuids : u \notin DOMAIN workspaces

\* db.CreateOrEditWorkspace: refuses a row without owner; otherwise writes the
\* non-zero fields over the row with that uuid, or inserts the row
DbWorkspaceError(w) == w.owner_pubkey = ""

DbUpdatedWorkspace(row, w) ==
    [id           |-> row.id,
     uuid         |-> row.uuid,
     owner_pubkey |-> IF w.owner_pubkey = "" THEN row.owner_pubkey ELSE w.owner_pubkey,
     name         |-> IF GoLen(w.name) = 0 THEN row.name ELSE w.name,
     description  |-> IF GoLen(w.description) = 0 THEN row.description ELSE w.description,
     github       |-> IF w.github = "" THEN row.github ELSE w.github]

DbCreateOrEditWorkspace(w) ==
    IF w.uuid \in DOMAIN workspaces
    THEN [workspaces EXCEPT ![w.uuid] = DbUpdatedWorkspace(@, w)]
    ELSE workspaces @@
         (w.uuid :> [w EXCEPT !.id = Cardinality(DOMAIN workspaces) + 1])

\* the caller may edit: handlers compare the caller with the owner key of the
\* request body and fall back to the EditOrg role
MayEditWorkspace(caller, body) ==
    \/ caller = body.owner_pubkey
    \/ UserHasAccess(caller, body.uuid, EditOrg)

\* a creation that never finds the name taken
WorkspaceNameExistsNever(name) == FALSE

\* workspaceSameName.Name == name
WorkspaceNameExists(name) == GetWorkspaceByName(name).name = name

\* the status CreateOrEditWorkspace answers with, in the order of its checks
CreateOrEditWorkspaceCode(caller, body) ==
    IF caller = NoKey THEN 401
    ELSE IF body = Malformed THEN 406
    ELSE IF GoLen(TrimSpace(body.name)) = 0 \/ GoLen(TrimSpace(body.name)) > MaxNameLen THEN 400
    ELSE IF GoLen(body.description) > MaxDescriptionLen THEN 400
    ELSE IF ~MayEditWorkspace(caller, body) THEN 401
    ELSE IF ~ValidateWorkspace(body) THEN 400
    ELSE IF body.github /= "" /\ ~ContainsGithub(body.github) THEN 400
    ELSE IF GetWorkspaceByUuid(body.uuid).id = 0 /\ body.id /= 0 THEN 401
    ELSE IF /\ GetWorkspaceByUuid(body.uuid).id = 0
            /\ WorkspaceNameExists(TrimSpace(body.name)) THEN 409
    ELSE IF DbWorkspaceError(body) THEN 400
    ELSE 200

\* the row CreateOrEditWorkspace hands to the store
WorkspaceToStore(body) ==
    LET named == [body EXCEPT !.name = TrimSpace(body.name)]
    IN  IF GetWorkspaceByUuid(body.uuid).id = 0 /\ body.uuid = ""
        THEN [named EXCEPT !.uuid = FreshWorkspaceUuid]
        ELSE named

CreateOrEditWorkspace ==
    /\ \E caller \in Callers, body \in WorkspaceBodies :
         LET code == CreateOrEditWorkspaceCode(caller, body) IN
         IF code /= 200
         THEN /\ last' = Served("CreateOrEditWorkspace", caller, body, code, "", NoResult)
              /\ UNCHANGED workspaces
         ELSE /\ \/ GetWorkspaceByUuid(body.uuid).id /= 0
                 \/ body.uuid /= ""
                 \/ \E u \in GeneratedWorkspaceUuids : u \notin DOMAIN workspaces
              /\ workspaces' = DbCreateOrEditWorkspace(WorkspaceToStore(body))
              /\ last' = Served("CreateOrEditWorkspace", caller, body, 200, "",
                                workspaces'[WorkspaceToStore(body).uuid])
    /\ UNCHANGED <<invoices, budgets, procs, chatMessages, workspaceUsers, userRoles, features, phases, stories,
                   tickets, bounties, now>>

\* the status UpdateWorkspace answers with
UpdateWorkspaceCode(caller, body) ==
    IF caller = NoKey THEN 401
    ELSE IF body = Malformed THEN 406
    ELSE IF ~MayEditWorkspace(caller, body) THEN 401
    ELSE IF ~ValidateWorkspace(body) THEN 400
    ELSE IF DbWorkspaceError(body) THEN 400
    ELSE 200

UpdateWorkspace ==
    /\ \E caller \in Callers, body \in WorkspaceBodies :
         LET code == UpdateWorkspaceCode(caller, body) IN
         IF code /= 200
         THEN /\ last' = Served("UpdateWorkspace", caller, body, code, "", NoResult)
              /\ UNCHANGED workspaces
         ELSE /\ workspaces' = DbCreateOrEditWorkspace(body)
              /\ last' = Served("UpdateWorkspace", caller, body, 200, "",
                                workspaces'[body.uuid])
    /\ UNCHANGED <<invoices, budgets, procs, chatMessages, workspaceUsers, userRoles, features, phases, stories,
                   tickets, bounties, now>>

\* ------------------------------------------------------- workspace users

WorkspaceUserBody(owner, workspace_uuid, org_uuid) ==
    [owner_pubkey |-> owner, workspace_uuid |-> workspace_uuid, org_uuid |-> org_uuid]

WorkspaceUserBodies ==
    {WorkspaceUserBody(o, w[1], w[2]) :
        o \in People \cup {Stranger},
        w \in {<<SuppliedWorkspaceUuid, "">>, <<"", SuppliedWorkspaceUuid>>,
               <<"", "">>, <<GhostWorkspaceUuid, "">>}}
    \cup {Malformed}

\* the workspace a user body addresses: org_uuid stands in for an empty
\* workspace_uuid; a body that does not decode leaves both empty
UserBodyWorkspaceUuid(body) ==
    IF body = Malformed THEN ""
    ELSE IF body.workspace_uuid = "" /\ body.org_uuid /= "" THEN body.org_uuid
    ELSE body.workspace_uuid

\* db.GetPersonByPubkey(pubkey).OwnerPubKey
PersonPubkey(pubkey) == IF pubkey \in People THEN pubkey ELSE ""

\* db.GetWorkspaceUser(pubkey, uuid).ID /= 0
WorkspaceUserExists(pubkey, uuid) ==
    \E i \in 1..Len(workspaceUsers) :
        /\ workspaceUsers[i].owner_pubkey = pubkey
        /\ workspaceUsers[i].workspace_uuid = uuid

\* the status CreateWorkspaceUser answers with, in the order of its checks:
\* the body is read and decoded before the caller is looked at
CreateWorkspaceUserCode(caller, body) ==
    IF body = Malformed THEN 406
    ELSE IF caller = NoKey THEN 401
    ELSE IF body.owner_pubkey = GetWorkspaceByUuid(UserBodyWorkspaceUuid(body)).owner_pubkey THEN 401
    ELSE IF caller = body.owner_pubkey THEN 401
    ELSE IF ~UserHasAccess(caller, UserBodyWorkspaceUuid(body), AddUser) THEN 401
    ELSE IF PersonPubkey(body.owner_pubkey) /= body.owner_pubkey THEN 401
    ELSE IF WorkspaceUserExists(body.owner_pubkey, UserBodyWorkspaceUuid(body)) THEN 401
    ELSE 200

CreateWorkspaceUser ==
    /\ \E caller \in Callers, body \in WorkspaceUserBodies :
         LET code == CreateWorkspaceUserCode(caller, body) IN
         IF code /= 200
         THEN /\ last' = Served("CreateWorkspaceUser", caller, body, code, "", NoResult)
              /\ UNCHANGED workspaceUsers
         ELSE /\ workspaceUsers' = Append(workspaceUsers,
                    [owner_pubkey |-> body.owner_pubkey,
                     workspace_uuid |-> UserBodyWorkspaceUuid(body)])
              /\ last' = Served("CreateWorkspaceUser", caller, body, 200, "", NoResult)
    /\ UNCHANGED <<invoices, budgets, procs, chatMessages, workspaces, userRoles, features, phases, stories, tickets,
                   bounties, now>>

\* ------------------------------------------- workspace users, in steps

\* the reads of CreateWorkspaceUser up to GetWorkspaceUser: a refused request
\* answers at once, an accepted one goes on to the insert
CreateUserBegin(p) ==
    /\ procs[p].pc = "idle"
    /\ \E caller \in Callers, body \in WorkspaceUserBodies :
         LET code == CreateWorkspaceUserCode(caller, body) IN
         IF code /= 200
         THEN /\ last' = Served("CreateWorkspaceUser", caller, body, code, "", NoResult)
              /\ UNCHANGED procs
         ELSE /\ procs' = [procs EXCEPT ![p] =
                             [pc |-> "checked", caller |-> caller, body |-> body]]
              /\ last' = last
    /\ UNCHANGED <<invoices, budgets, chatMessages, workspaces, workspaceUsers, userRoles, features, phases,
                   stories, tickets, bounties, now>>

\* db.CreateWorkspaceUser and the 200
CreateUserWrite(p) ==
    /\ procs[p].pc = "checked"
    /\ workspaceUsers' = Append(workspaceUsers,
          [owner_pubkey |-> procs[p].body.owner_pubkey,
           workspace_uuid |-> UserBodyWorkspaceUuid(procs[p].body)])
    /\ last' = Served("CreateWorkspaceUser", procs[p].caller, procs[p].body, 200, "",
                      NoResult)
    /\ procs' = [procs EXCEPT ![p] = Idle]
    /\ UNCHANGED <<invoices, budgets, chatMessages, workspaces, userRoles, features, phases, stories, tickets,
                   bounties, now>>

CreateUserStep == \E p \in Processes : CreateUserBegin(p) \/ CreateUserWrite(p)

\* ------------------------------------------------------------ user roles

\* db.GetRolesMap: the roles the model uses, and a role it does not hold
KnownRoles == {EditOrg, AddUser, AddRoles}
UnknownRole == "SUPER ADMIN"

\* a role of the request body
RoleRow(owner, role) ==
    [owner_pubkey |-> owner, workspace_uuid |-> SuppliedWorkspaceUuid, role |-> role]

RoleLists ==
    {<<>>, <<AddRoles>>, <<AddUser>>, <<EditOrg>>, <<AddRoles, EditOrg>>,
     <<AddUser, UnknownRole>>}

\* the bodies of AddUserRoles: the roles name the user of the route, and one
\* body names bob whoever the route names
RoleBodies ==
    {[owner |-> "route", roles |-> l] : l \in RoleLists}
    \cup {[owner |-> "bob", roles |-> <<AddRoles>>], Malformed}

RoleTargets ==
    {[uuid |-> SuppliedWorkspaceUuid, user |-> "bob"],
     [uuid |-> SuppliedWorkspaceUuid, user |-> "carol"],
     [uuid |-> "", user |-> "bob"],
     [uuid |-> SuppliedWorkspaceUuid, user |-> ""]}

\* the decoded roles of a body sent to the route of that user
DecodedRoles(body, user) ==
    [i \in 1..Len(body.roles) |->
        RoleRow(IF body.owner = "route" THEN user ELSE body.owner, body.roles[i])]

\* db.CheckUser: one of the roles names that pubkey
CheckUser(roles, pubkey) ==
    \E i \in 1..Len(roles) : roles[i].owner_pubkey = pubkey

\* a loop that checks only that the role is a known one
RoleAllowedIfKnown(caller, uuid, role) == role \in KnownRoles

\* the two checks of the loop on one role
RoleAllowed(caller, uuid, role) ==
    /\ role \in KnownRoles
    /\ UserHasAccess(caller, uuid, role)

\* db.GetWorkspaceUser(user, uuid) returns the row of that user and workspace
IsWorkspaceMember(user, uuid) == WorkspaceUserExists(user, uuid)

\* the status AddUserRoles answers with, in the order of its checks
AddUserRolesCode(caller, uuid, user, body) ==
    IF uuid = "" \/ user = "" THEN 401
    ELSE IF body = Malformed THEN 406
    ELSE IF caller = NoKey THEN 401
    ELSE IF CheckUser(DecodedRoles(body, user), caller) THEN 401
    ELSE IF caller = user THEN 401
    ELSE IF ~UserHasAccess(caller, uuid, AddRoles) THEN 401
    ELSE IF \E i \in 1..Len(body.roles) : ~RoleAllowed(caller, uuid, body.roles[i]) THEN 401
    ELSE IF ~IsWorkspaceMember(user, uuid) THEN 401
    ELSE 200

\* db.CreateUserRoles(insertRoles, uuid, user): the roles of that user on
\* that workspace are replaced by the ones of the request
DbCreateUserRoles(rows, roles, uuid, user) ==
    {r \in rows : ~(r.owner_pubkey = user /\ r.workspace_uuid = uuid)}
    \cup {[owner_pubkey |-> user, workspace_uuid |-> uuid, role |-> roles[i].role] :
              i \in 1..Len(roles)}

AddUserRoles ==
    /\ \E caller \in Callers, target \in RoleTargets, body \in RoleBodies :
         LET code == AddUserRolesCode(caller, target.uuid, target.user, body) IN
         /\ userRoles' = IF code = 200
                          THEN DbCreateUserRoles(userRoles,
                                   DecodedRoles(body, target.user),
                                   target.uuid, target.user)
                          ELSE userRoles
         /\ last' = Served("AddUserRoles", caller,
                           [uuid |-> target.uuid, user |-> target.user, body |-> body],
                           code, "", NoResult)
    /\ UNCHANGED <<invoices, budgets, procs, chatMessages, workspaces, workspaceUsers, features, phases,
                   stories, tickets, bounties, now>>

\* ------------------------------------------------------------ feature rows

ZeroFeature ==
    [id |-> 0, uuid |-> "", workspace_uuid |-> "", name |-> "",
     created_by |-> "", updated_by |-> "", feat_status |-> ""]

\* db.GetFeatureByUuid: the row with that uuid, or the zero value
GetFeatureByUuid(uuid) ==
    IF uuid \in DOMAIN features THEN features[uuid] ELSE ZeroFeature

SuppliedFeatureUuid == "F1"
GeneratedFeatureUuids == {"XF1"}    \* the ids xid.New() hands out

FeatureBody(uuid, workspace_uuid, name) ==
    [uuid |-> uuid, workspace_uuid |-> workspace_uuid, name |-> name]

FeatureBodies ==
    {FeatureBody(u, w, n) :
        u \in {"", SuppliedFeatureUuid},
        w \in {"", SuppliedWorkspaceUuid, GhostWorkspaceUuid},
        n \in {"", "test-feature", "renamed-feature"}}
    \cup {Malformed}

\* db.Validate.Struct on a decoded feature: its required fields are present
ValidateFeature(body) == body.workspace_uuid /= "" /\ body.name /= ""

\* a handler that does not look the workspace up
FeatureWorkspaceExistsUnchecked(body) == TRUE

\* "Check if workspace exists": the row found carries the uuid asked for
FeatureWorkspaceExists(body) ==
    GetWorkspaceByUuid(body.workspace_uuid).uuid = body.workspace_uuid

\* the status CreateOrEditFeatures answers with, in the order of its checks
CreateOrEditFeaturesCode(caller, body) ==
    IF caller = NoKey THEN 401
    ELSE IF body = Malformed THEN 406
    ELSE IF ~ValidateFeature(body) THEN 400
    ELSE IF ~FeatureWorkspaceExists(body) THEN 401
    ELSE 200

FreshFeatureUuid ==
    CHOOSE u \in GeneratedFeatureUuids : u \notin DOMAIN features

\* the row the handler hands to the store: created_by is always the caller,
\* updated_by only when the body names the feature
FeatureToStore(caller, body) ==
    [id |-> 0,
     uuid |-> IF body.uuid = "" THEN FreshFeatureUuid ELSE body.uuid,
     workspace_uuid |-> body.workspace_uuid,
     name |-> body.name,
     created_by |-> caller,
     updated_by |-> IF body.uuid = "" THEN "" ELSE caller,
     feat_status |-> ""]

\* db.CreateOrEditFeature: insert, or write the non-zero fields over the row
DbCreateOrEditFeature(f) ==
    IF f.uuid \in DOMAIN features
    THEN [features EXCEPT ![f.uuid] =
            [id |-> @.id,
             uuid |-> @.uuid,
             workspace_uuid |-> f.workspace_uuid,
             name |-> f.name,
             created_by |-> f.created_by,
             updated_by |-> IF f.updated_by = "" THEN @.updated_by ELSE f.updated_by,
             feat_status |-> IF f.feat_status = "" THEN @.feat_status ELSE f.feat_status]]
    ELSE features @@ (f.uuid :> [f EXCEPT !.id = Cardinality(DOMAIN features) + 1])

CreateOrEditFeatures ==
    /\ \E caller \in Callers, body \in FeatureBodies :
         LET code == CreateOrEditFeaturesCode(caller, body) IN
         IF code /= 200
         THEN /\ last' = Served("CreateOrEditFeatures", caller, body, code, "", NoResult)
              /\ UNCHANGED features
         ELSE /\ \/ body.uuid /= ""
                 \/ \E u \in GeneratedFeatureUuids : u \notin DOMAIN features
              /\ features' = DbCreateOrEditFeature(FeatureToStore(caller, body))
              /\ last' = Served("CreateOrEditFeatures", caller, body, 200, "",
                                features'[FeatureToStore(caller, body).uuid])
    /\ UNCHANGED <<invoices, budgets, procs, chatMessages, workspaces, workspaceUsers, userRoles, phases, stories,
                   tickets, bounties, now>>

\* -------------------------------------------------------- feature stories

\* xid.New(): ids are ordered by the time they are made at and never repeat
Xid(at) == "xid-" \o ToString(at)

FakeFeatureUuid == "Fake-feature-uuid"    \* the uuid of no feature

\* the decoded webhook payload: Output.FeatureUuid and the UserStory of each
\* of Output.Stories
StoryPayload(feature_uuid, user_stories) ==
    [feature_uuid |-> feature_uuid, stories |-> user_stories]

StoryPayloads ==
    {StoryPayload(f, us) :
        f \in {SuppliedFeatureUuid, FakeFeatureUuid},
        us \in {<<>>, <<"This is a test user story">>,
                <<"This is a test user story", "This is a test user story 2">>}}
    \cup {Malformed}

\* a handler that stores stories without looking the feature up
FeatureMissingNever(feature) == feature.id /= feature.id

\* "check if feature story exists": the feature looked up has no row
FeatureMissing(feature) == feature.id = 0

\* db.CreateOrEditFeatureStory: the story is stored under its uuid
DbCreateOrEditFeatureStory(rows, story) ==
    IF story.uuid \in DOMAIN rows
    THEN [rows EXCEPT ![story.uuid] = story]
    ELSE rows @@ (story.uuid :> story)

\* the number of stories of a payload the loop stores, each reading the clock
StoriesStored(body) ==
    IF FeatureMissing(GetFeatureByUuid(body.feature_uuid)) THEN 0
    ELSE Len(body.stories)

\* the loop over Output.Stories, started at time `at` on the table `rows`
RECURSIVE StoriesAdded(_, _, _, _)
StoriesAdded(rows, feature_uuid, user_stories, at) ==
    IF user_stories = <<>> THEN rows
    ELSE IF FeatureMissing(GetFeatureByUuid(feature_uuid))
    THEN StoriesAdded(rows, feature_uuid, Tail(user_stories), at)
    ELSE StoriesAdded(
             DbCreateOrEditFeatureStory(rows,
                 [uuid |-> Xid(at + 1), description |-> Head(user_stories),
                  feature_uuid |-> feature_uuid, created |-> at + 1]),
             feature_uuid, Tail(user_stories), at + 1)

\* the handler never looks at the caller key
GetFeatureStories ==
    /\ \E caller \in Callers, body \in StoryPayloads :
         IF body = Malformed
         THEN /\ last' = Served("GetFeatureStories", caller, body, 406, "", NoResult)
              /\ UNCHANGED <<stories, now>>
         ELSE /\ now + StoriesStored(body) <= MaxClock
              /\ now' = now + StoriesStored(body)
              /\ stories' = StoriesAdded(stories, body.feature_uuid, body.stories, now)
              /\ last' = Served("GetFeatureStories", caller, body, 200, "",
                                "User stories added successfully")
    /\ UNCHANGED <<invoices, budgets, procs, chatMessages, workspaces, workspaceUsers, userRoles, features, phases,
                   tickets, bounties>>

\* --------------------------------------------------------- feature status

ActiveFeature == "active"
ArchivedFeature == "archived"

\* a validation that lets every status through
IsValidFeatureStatusAnyString(status) == status = status

\* the fixed set a new feature status is validated against
IsValidFeatureStatus(status) == status \in {ActiveFeature, ArchivedFeature}

NilBody == [nil |-> TRUE]      \* a request without body

StatusBodies ==
    {NilBody, Malformed} \cup
    {[status |-> st] : st \in {"", "invalid_status", ActiveFeature, ArchivedFeature}}

StatusUuids == {"", SuppliedFeatureUuid, GhostWorkspaceUuid}

\* the callers of UpdateFeatureStatus: none, a person, a key of no person
StatusCallers == {NoKey, "alice", Stranger}

\* the status UpdateFeatureStatus answers with, in the order of its checks
UpdateFeatureStatusCode(caller, uuid, body) ==
    IF caller = NoKey THEN 401
    ELSE IF PersonPubkey(caller) /= caller THEN 401
    ELSE IF uuid = "" THEN 400
    ELSE IF body = NilBody THEN 400
    ELSE IF body = Malformed THEN 400
    ELSE IF ~IsValidFeatureStatus(body.status) THEN 400
    ELSE IF uuid \notin DOMAIN features THEN 500
    ELSE 200

UpdateFeatureStatus ==
    /\ \E caller \in StatusCallers, uuid \in StatusUuids, body \in StatusBodies :
         LET code == UpdateFeatureStatusCode(caller, uuid, body)
             req == [uuid |-> uuid, body |-> body]
         IN  IF code /= 200
             THEN /\ last' = Served("UpdateFeatureStatus", caller, req, code, "", NoResult)
                  /\ UNCHANGED features
             ELSE /\ features' = [features EXCEPT ![uuid].feat_status = body.status]
                  /\ last' = Served("UpdateFeatureStatus", caller, req, 200, "",
                                    features'[uuid])
    /\ UNCHANGED <<invoices, budgets, procs, chatMessages, workspaces, workspaceUsers, userRoles, phases, stories,
                   tickets, bounties, now>>

\* ---------------------------------------------------------- feature phases

ZeroPhase ==
    [uuid |-> "", feature_uuid |-> "", name |-> "", created_by |-> "",
     updated_by |-> ""]

SuppliedPhaseUuid == "P1"
GeneratedPhaseUuids == {"XP1"}    \* the ids xid.New() hands out
BodyCreator == "mallory"          \* a created_by key a body carries

\* the decoded db.FeaturePhase of a request
PhaseBody(uuid, feature_uuid, created_by) ==
    [uuid |-> uuid, feature_uuid |-> feature_uuid, name |-> "feature_phase_name",
     created_by |-> created_by, updated_by |-> ""]

PhaseBodies ==
    {PhaseBody(u, f, cb) :
        u \in {"", SuppliedPhaseUuid},
        f \in {"", "F1", "F2", GhostWorkspaceUuid},
        cb \in {"", BodyCreator}}
    \cup {Malformed}

\* db.GetFeaturePhaseByUuid(featureUuid, phaseUuid): the phase with that
\* uuid in that feature, or the zero value
GetFeaturePhaseByUuid(feature_uuid, uuid) ==
    IF uuid \in DOMAIN phases /\ phases[uuid].feature_uuid = feature_uuid
    THEN phases[uuid]
    ELSE ZeroPhase

FreshPhaseUuid ==
    CHOOSE u \in GeneratedPhaseUuids : u \notin DOMAIN phases

\* the phase the handler hands to the store
PhaseToStore(caller, body) ==
    LET uuid == IF body.uuid = "" THEN FreshPhaseUuid ELSE body.uuid
    IN  [body EXCEPT
            !.uuid = uuid,
            !.created_by =
                IF GetFeaturePhaseByUuid(body.feature_uuid, uuid).created_by = ""
                THEN caller ELSE body.created_by,
            !.updated_by = caller]

\* "Check if feature exists": the row found carries the uuid asked for
PhaseFeatureExists(body) ==
    GetFeatureByUuid(body.feature_uuid).uuid = body.feature_uuid

\* the status CreateOrEditFeaturePhase answers with, in the order of its checks
CreateOrEditFeaturePhaseCode(caller, body) ==
    IF caller = NoKey THEN 401
    ELSE IF body = Malformed THEN 406
    ELSE IF ~PhaseFeatureExists(body) THEN 401
    ELSE 201

\* db.CreateOrEditFeaturePhase: insert, or write the non-zero fields over
\* the row with that uuid
DbCreateOrEditFeaturePhase(p) ==
    IF p.uuid \in DOMAIN phases
    THEN [phases EXCEPT ![p.uuid] =
            [uuid |-> @.uuid,
             feature_uuid |-> IF p.feature_uuid = "" THEN @.feature_uuid ELSE p.feature_uuid,
             name |-> IF p.name = "" THEN @.name ELSE p.name,
             created_by |-> IF p.created_by = "" THEN @.created_by ELSE p.created_by,
             updated_by |-> IF p.updated_by = "" THEN @.updated_by ELSE p.updated_by]]
    ELSE phases @@ (p.uuid :> p)

CreateOrEditFeaturePhase ==
    /\ \E caller \in Callers, body \in PhaseBodies :
         LET code == CreateOrEditFeaturePhaseCode(caller, body) IN
         IF code /= 201
         THEN /\ last' = Served("CreateOrEditFeaturePhase", caller, body, code, "", NoResult)
              /\ UNCHANGED phases
         ELSE /\ \/ body.uuid /= ""
                 \/ \E u \in GeneratedPhaseUuids : u \notin DOMAIN phases
              /\ phases' = DbCreateOrEditFeaturePhase(PhaseToStore(caller, body))
              /\ last' = Served("CreateOrEditFeaturePhase", caller, body, 201, "",
                                phases'[PhaseToStore(caller, body).uuid])
    /\ UNCHANGED <<invoices, budgets, procs, chatMessages, workspaces, workspaceUsers, userRoles, features, stories,
                   tickets, bounties, now>>

\* ------------------------------------------------------------ ticket rows

DraftTicket == "draft"
ReadyTicket == "ready"
InProgressTicket == "in-progress"
TestTicket == "test"
DeployTicket == "deploy"
PayTicket == "pay"
CompletedTicket == "completed"

\* a validation that lets every status through
IsValidTicketStatusAnyString(status) == status = status

IsValidTicketStatus(status) ==
    status \in {DraftTicket, ReadyTicket, InProgressTicket, TestTicket,
                DeployTicket, PayTicket, CompletedTicket}

\* the zero value Tickets{}
ZeroTicket ==
    [uuid |-> NilUuid, ticket_group |-> NilPtr, feature_uuid |-> "",
     phase_uuid |-> "", name |-> "", sequence |-> 0, description |-> "",
     status |-> "", version |-> 0, author |-> NilPtr,
     created_at |-> 0, updated_at |-> 0]

\* the columns of a ticket a payload can carry besides its key and timestamps
TicketPayloadFields ==
    {"ticket_group", "feature_uuid", "phase_uuid", "name", "sequence",
     "description", "status", "version", "author"}

\* a field holding Go's zero value is one the payload omits
IsZeroField(t, f) == t[f] = ZeroTicket[f]

\* the ticket payloads callers send, without their uuid
FullTicket1 ==
    [ZeroTicket EXCEPT !.ticket_group = "G1", !.feature_uuid = "F1",
                       !.phase_uuid = "P1", !.name = "Test Ticket",
                       !.sequence = 1, !.description = "Test Description",
                       !.status = DraftTicket, !.version = 1,
                       !.author = "HUMAN"]
FullTicket2 ==
    [ZeroTicket EXCEPT !.ticket_group = "G2", !.feature_uuid = "F2",
                       !.phase_uuid = "P2", !.name = "Updated Test Ticket",
                       !.sequence = 2, !.description = "Updated Description",
                       !.status = CompletedTicket, !.version = 2,
                       !.author = "AGENT"]
DescStatusTicket ==
    [ZeroTicket EXCEPT !.description = "Updated Description",
                       !.status = ReadyTicket]
NameOnlyTicket == [ZeroTicket EXCEPT !.name = "Updated Test Ticket"]
BadStatusTicket == [FullTicket1 EXCEPT !.status = "archived"]

TicketShapes ==
    {ZeroTicket, FullTicket1, FullTicket2, DescStatusTicket, NameOnlyTicket,
     BadStatusTicket}

TicketInputs ==
    {[s EXCEPT !.uuid = "U1"] : s \in TicketShapes}
    \cup {[FullTicket1 EXCEPT !.uuid = "U2"], [BadStatusTicket EXCEPT !.uuid = "U2"]}
    \cup {FullTicket1, ZeroTicket, BadStatusTicket}

ErrUuidRequired == "ticket UUID is required"
ErrInvalidStatus == "invalid ticket status"
ErrTicketNotFound == "ticket not found"

\* gorm's Save(struct) instead: every column is written, zero values included
UpdatesAllFields(existing, t) ==
    [t EXCEPT !.created_at = existing.created_at]

\* gorm's Updates(struct): only the non-zero fields of the payload are written
Updates(existing, t) ==
    [uuid         |-> IF t.uuid = NilUuid THEN existing.uuid ELSE t.uuid,
     ticket_group |-> IF t.ticket_group = NilPtr THEN existing.ticket_group ELSE t.ticket_group,
     feature_uuid |-> IF t.feature_uuid = "" THEN existing.feature_uuid ELSE t.feature_uuid,
     phase_uuid   |-> IF t.phase_uuid = "" THEN existing.phase_uuid ELSE t.phase_uuid,
     name         |-> IF t.name = "" THEN existing.name ELSE t.name,
     sequence     |-> IF t.sequence = 0 THEN existing.sequence ELSE t.sequence,
     description  |-> IF t.description = "" THEN existing.description ELSE t.description,
     status       |-> IF t.status = "" THEN existing.status ELSE t.status,
     version      |-> IF t.version = 0 THEN existing.version ELSE t.version,
     author       |-> IF t.author = NilPtr THEN existing.author ELSE t.author,
     created_at   |-> IF t.created_at = 0 THEN existing.created_at ELSE t.created_at,
     updated_at   |-> IF t.updated_at = 0 THEN existing.updated_at ELSE t.updated_at]

\* an insert that stores the status as the payload gives it
NewTicketRowNoDefault(t, at) == [t EXCEPT !.created_at = at, !.updated_at = at]

\* the row db.Create inserts for a ticket that is not stored yet
NewTicketRow(t, at) ==
    [t EXCEPT !.created_at = at, !.updated_at = at,
              !.status = IF t.status = "" THEN DraftTicket ELSE t.status]

\* the validation without its first check
UpsertErrorNoUuidCheck(t) ==
    IF t.status /= "" /\ ~IsValidTicketStatus(t.status) THEN ErrInvalidStatus
    ELSE ""

\* the validation both upserts run before they touch the store
UpsertError(t) ==
    IF t.uuid = NilUuid THEN ErrUuidRequired
    ELSE IF t.status /= "" /\ ~IsValidTicketStatus(t.status) THEN ErrInvalidStatus
    ELSE ""

\* the store after a validated upsert of t at time `at`
UpsertedTickets(t, at) ==
    IF t.uuid \notin DOMAIN tickets
    THEN tickets @@ (t.uuid :> NewTicketRow(t, at))
    ELSE [tickets EXCEPT ![t.uuid] = Updates(@, [t EXCEPT !.updated_at = at])]

UpsertTicket(op, t) ==
    IF UpsertError(t) /= ""
    THEN /\ last' = Served(op, NoKey, t, 0, UpsertError(t), ZeroTicket)
         /\ UNCHANGED <<tickets, now>>
    ELSE /\ now < MaxClock
         /\ now' = now + 1
         /\ tickets' = UpsertedTickets(t, now')
         /\ last' = Served(op, NoKey, t, 0, "", tickets'[t.uuid])

CreateOrEditTicket ==
    /\ \E t \in TicketInputs : UpsertTicket("CreateOrEditTicket", t)
    /\ UNCHANGED <<invoices, budgets, procs, chatMessages, workspaces, workspaceUsers, userRoles, features, phases,
                   stories, bounties>>

UpdateTicket ==
    /\ \E t \in TicketInputs : UpsertTicket("UpdateTicket", t)
    /\ UNCHANGED <<invoices, budgets, procs, chatMessages, workspaces, workspaceUsers, userRoles, features, phases,
                   stories, bounties>>

\* db.GetTicket: the row Find fills, the zero value when no row matches
GetTicket(uuid) == IF uuid \in DOMAIN tickets THEN tickets[uuid] ELSE ZeroTicket

\* a lookup that forgets to look at RowsAffected
GetTicketErrorNever(uuid) == uuid /= uuid

\* db.GetTicket fails with "ticket not found" when no row matches
GetTicketError(uuid) == uuid \notin DOMAIN tickets

\* a conversion that takes the bounty's title from the description
BountyFromTicketSwapped(ticket, pubkey, at) ==
    [title |-> ticket.description,
     description |-> ticket.name,
     phase_uuid |-> ticket.phase_uuid,
     feature_uuid |-> ticket.feature_uuid,
     workspace_uuid |-> GetFeatureByUuid(ticket.feature_uuid).workspace_uuid,
     owner_id |-> pubkey,
     type |-> "freelance_job_request",
     wanted_type |-> "Other",
     price |-> 21,
     created |-> at,
     show |-> TRUE]

\* db.CreateBountyFromTicket: the bounty row derived from a ticket
BountyFromTicket(ticket, pubkey, at) ==
    [title |-> ticket.name,
     description |-> ticket.description,
     phase_uuid |-> ticket.phase_uuid,
     feature_uuid |-> ticket.feature_uuid,
     workspace_uuid |-> GetFeatureByUuid(ticket.feature_uuid).workspace_uuid,
     owner_id |-> pubkey,
     type |-> "freelance_job_request",
     wanted_type |-> "Other",
     price |-> 21,
     created |-> at,
     show |-> TRUE]

\* an insert that returns the stored row when one with the same content
\* (apart from its timestamp) is there already
DbCreateUnlessPresent(rows, row) ==
    IF \E i \in 1..Len(rows) : [rows[i] EXCEPT !.created = row.created] = row
    THEN rows
    ELSE Append(rows, row)

\* db.Create(bounty): the row is inserted under the next id of the table
DbCreate(rows, row) == Append(rows, row)

\* --------------------------------------------------- ticket-to-bounty

TicketToBountyUuids == {""} \cup TicketUuids \cup {GhostTicketUuid}

\* the status TicketToBounty answers with
TicketToBountyCode(caller, ticket_uuid) ==
    IF caller = NoKey THEN 401
    ELSE IF ticket_uuid = "" THEN 400
    ELSE IF GetTicketError(ticket_uuid) THEN 404
    ELSE 201

TicketToBounty ==
    /\ \E caller \in Callers, ticket_uuid \in TicketToBountyUuids :
         LET code == TicketToBountyCode(caller, ticket_uuid) IN
         IF code /= 201
         THEN /\ last' = Served("TicketToBounty", caller, ticket_uuid, code, "", 0)
              /\ UNCHANGED <<bounties, now>>
         ELSE /\ now < MaxClock
              /\ now' = now + 1
              /\ bounties' = DbCreate(bounties,
                                BountyFromTicket(GetTicket(ticket_uuid), caller, now'))
              /\ last' = Served("TicketToBounty", caller, ticket_uuid, 201, "",
                                Len(bounties'))
    /\ UNCHANGED <<invoices, budgets, procs, chatMessages, workspaces, workspaceUsers, userRoles, features, phases,
                   stories, tickets>>

\* db.GetBounty(id): the bounty row with that id
GetBounty(id) == bounties[id]

\* ------------------------------------------- bounties of a feature phase

BountyQueries ==
    {[feature_uuid |-> q[1], phase_uuid |-> q[2]] :
        q \in {<<"", "">>, <<"F1", "P1">>, <<"F2", "P2">>, <<"F1", "P2">>,
               <<"invalid-uuid-format", "invalid-uuid-format">>,
               <<"F9", "P9">>}}

\* db.GetBountiesByFeatureAndPhaseUuid: the ids of the matching rows; the
\* call fails when there is none
BountiesByFeatureAndPhase(feature_uuid, phase_uuid) ==
    {i \in 1..Len(bounties) :
        /\ bounties[i].feature_uuid = feature_uuid
        /\ bounties[i].phase_uuid = phase_uuid}

DbBountiesError(feature_uuid, phase_uuid) ==
    BountiesByFeatureAndPhase(feature_uuid, phase_uuid) = {}

\* a handler that answers an empty list with success
GetBountiesCodeEmptyOk(caller, feature_uuid, phase_uuid) ==
    IF caller = NoKey THEN 401 ELSE 200

\* the status GetBountiesByFeatureAndPhaseUuid answers with
GetBountiesCode(caller, feature_uuid, phase_uuid) ==
    IF caller = NoKey THEN 401
    ELSE IF DbBountiesError(feature_uuid, phase_uuid) THEN 404
    ELSE 200

GetBountiesByFeatureAndPhaseUuid ==
    /\ \E caller \in Callers, q \in BountyQueries :
         LET code == GetBountiesCode(caller, q.feature_uuid, q.phase_uuid) IN
         last' = Served("GetBountiesByFeatureAndPhaseUuid", caller, q, code, "",
                        IF code = 200
                        THEN BountiesByFeatureAndPhase(q.feature_uuid, q.phase_uuid)
                        ELSE {})
    /\ UNCHANGED <<invoices, budgets, procs, chatMessages, workspaces, workspaceUsers, userRoles, features, phases,
                   stories, tickets, bounties, now>>

\* ------------------------------------------------- ticket upserts in steps

\* request 1 runs db.CreateOrEditTicket and request 2 db.UpdateTicket, both
\* on the same ticket
RaceOp(p) == IF p = 1 THEN "CreateOrEditTicket" ELSE "UpdateTicket"
RaceInputs == {t \in TicketInputs : t.uuid = "U1"}

ErrCreateFailed == "failed to create ticket"

\* an update that leaves the row alone when the payload has a lower version
UpdateStatementIfNewer(rows, t) ==
    IF t.uuid \in DOMAIN rows /\ t.version >= rows[t.uuid].version
    THEN [rows EXCEPT ![t.uuid] = Updates(@, t)]
    ELSE rows

\* the UPDATE statement of an upsert: Model(&existingTicket).Updates(ticket)
UpdateStatement(rows, t) ==
    IF t.uuid \in DOMAIN rows
    THEN [rows EXCEPT ![t.uuid] = Updates(@, t)]
    ELSE rows

\* the checks, First(&existingTicket) and time.Now()
UpsertBegin(p) ==
    /\ procs[p].pc = "idle"
    /\ \E t \in RaceInputs :
         IF UpsertError(t) /= ""
         THEN /\ last' = Served(RaceOp(p), NoKey, t, 0, UpsertError(t), ZeroTicket)
              /\ UNCHANGED <<procs, now>>
         ELSE /\ now < MaxClock
              /\ now' = now + 1
              /\ procs' = [procs EXCEPT ![p] =
                             [pc |-> "looked", t |-> [t EXCEPT !.updated_at = now'],
                              found |-> t.uuid \in DOMAIN tickets,
                              seq |-> 0, overlap |-> FALSE]]
              /\ last' = last
    /\ UNCHANGED <<invoices, budgets, chatMessages, workspaces, workspaceUsers, userRoles, features,
                   phases, stories, tickets, bounties>>

\* Create(&ticket) when First found no row, Updates(ticket) when it found one;
\* the insert of a uuid that got stored in between fails on the key
UpsertWrite(p) ==
    /\ procs[p].pc = "looked"
    /\ LET t == procs[p].t
           seq == IF procs[Other(p)].pc = "written" THEN procs[Other(p)].seq + 1 ELSE 1
           overlap == procs[Other(p)].pc = "looked" IN
       IF procs[p].found
       THEN /\ tickets' = UpdateStatement(tickets, t)
            /\ procs' = [procs EXCEPT ![p].pc = "written", ![p].seq = seq,
                                      ![p].overlap = overlap]
       ELSE IF t.uuid \in DOMAIN tickets
       THEN /\ tickets' = tickets
            /\ procs' = [procs EXCEPT ![p].pc = "failed"]
       ELSE /\ tickets' = tickets @@ (t.uuid :> NewTicketRow(t, t.updated_at))
            /\ procs' = [procs EXCEPT ![p].pc = "written", ![p].seq = seq,
                                      ![p].overlap = overlap]
    /\ UNCHANGED <<invoices, budgets, chatMessages, workspaces, workspaceUsers, userRoles, features,
                   phases, stories, bounties, now, last>>

\* First(&updatedTicket) and the return
UpsertReturn(p) ==
    /\ procs[p].pc \in {"written", "failed"}
    /\ last' = IF procs[p].pc = "failed"
               THEN Served(RaceOp(p), NoKey, procs[p].t, 0, ErrCreateFailed, ZeroTicket)
               ELSE Served(RaceOp(p), NoKey, procs[p].t, 0, "", GetTicket(procs[p].t.uuid))
    /\ procs' = [procs EXCEPT ![p] = Idle]
    /\ UNCHANGED <<invoices, budgets, chatMessages, workspaces, workspaceUsers, userRoles, features,
                   phases, stories, tickets, bounties, now>>

UpsertStep == \E p \in Processes : UpsertBegin(p) \/ UpsertWrite(p) \/ UpsertReturn(p)

\* ---------------------------------------------------------------- deletes

\* the table without the row of that key
WithoutRow(rows, key) == [k \in DOMAIN rows \ {key} |-> rows[k]]

DeleteCallers == {NoKey, "alice"}
StoryUuids == {"S1", "S2"}
GhostStoryUuid == "S9"
GhostPhaseUuid == "P9"
GhostFeatureUuid == "F9"

ErrNoFeatureFound == "no feature found"
ErrNoPhaseFound == "no phase found"
ErrNoStoryFound == "no story found to delete"

\* db.DeleteFeatureByUuid
DeleteFeatureByUuidError(uuid) ==
    IF uuid \in DOMAIN features THEN "" ELSE ErrNoFeatureFound

\* db.DeleteFeaturePhase: the row of that phase under that feature
PhaseStored(feature_uuid, phase_uuid) ==
    /\ phase_uuid \in DOMAIN phases
    /\ phases[phase_uuid].feature_uuid = feature_uuid

DeleteFeaturePhaseError(feature_uuid, phase_uuid) ==
    IF PhaseStored(feature_uuid, phase_uuid) THEN "" ELSE ErrNoPhaseFound

\* db.DeleteFeatureStoryByUuid: the row of that story under that feature
StoryStored(feature_uuid, story_uuid) ==
    /\ story_uuid \in DOMAIN stories
    /\ stories[story_uuid].feature_uuid = feature_uuid

DeleteFeatureStoryByUuidError(feature_uuid, story_uuid) ==
    IF StoryStored(feature_uuid, story_uuid) THEN "" ELSE ErrNoStoryFound

\* a handler that does not look at the error of the store
DeleteCodeErrIgnored(caller, err) == IF caller = NoKey THEN 401 ELSE 200

\* the answer of DeleteFeature, DeleteFeaturePhase and DeleteStory
DeleteCode(caller, err) ==
    IF caller = NoKey THEN 401
    ELSE IF err /= "" THEN 404
    ELSE 200

\* the error the handler writes into the body, none when it answers 401
DeleteErr(caller, err) == IF caller = NoKey THEN "" ELSE err

DeleteFeature ==
    /\ \E caller \in DeleteCallers, uuid \in {"F1", "F2", GhostFeatureUuid} :
         LET err == DeleteFeatureByUuidError(uuid) IN
         /\ features' = IF caller /= NoKey /\ err = ""
                         THEN WithoutRow(features, uuid) ELSE features
         /\ last' = Served("DeleteFeature", caller, [uuid |-> uuid],
                           DeleteCode(caller, err), DeleteErr(caller, err), NoResult)
    /\ UNCHANGED <<invoices, budgets, procs, chatMessages, workspaces, workspaceUsers, userRoles, phases,
                   stories, tickets, bounties, now>>

DeleteFeaturePhase ==
    /\ \E caller \in DeleteCallers, feature_uuid \in {"F1", "F2"},
          phase_uuid \in {"P1", "P2", GhostPhaseUuid} :
         LET err == DeleteFeaturePhaseError(feature_uuid, phase_uuid) IN
         /\ phases' = IF caller /= NoKey /\ err = ""
                       THEN WithoutRow(phases, phase_uuid) ELSE phases
         /\ last' = Served("DeleteFeaturePhase", caller,
                           [feature_uuid |-> feature_uuid, phase_uuid |-> phase_uuid],
                           DeleteCode(caller, err), DeleteErr(caller, err), NoResult)
    /\ UNCHANGED <<invoices, budgets, procs, chatMessages, workspaces, workspaceUsers, userRoles, features,
                   stories, tickets, bounties, now>>

DeleteStory ==
    /\ \E caller \in DeleteCallers, feature_uuid \in {"F1", "F2"},
          story_uuid \in StoryUuids \cup {GhostStoryUuid} :
         LET err == DeleteFeatureStoryByUuidError(feature_uuid, story_uuid) IN
         /\ stories' = IF caller /= NoKey /\ err = ""
                        THEN WithoutRow(stories, story_uuid) ELSE stories
         /\ last' = Served("DeleteStory", caller,
                           [feature_uuid |-> feature_uuid, story_uuid |-> story_uuid],
                           DeleteCode(caller, err), DeleteErr(caller, err), NoResult)
    /\ UNCHANGED <<invoices, budgets, procs, chatMessages, workspaces, workspaceUsers, userRoles, features,
                   phases, tickets, bounties, now>>

\* db.DeleteTicket: RowsAffected == 0
DeleteTicketError(uuid) ==
    IF uuid \in DOMAIN tickets THEN "" ELSE ErrTicketNotFound

DeleteTicket ==
    /\ \E uuid \in TicketUuids \cup {GhostTicketUuid} :
         /\ tickets' = WithoutRow(tickets, uuid)
         /\ last' = Served("DeleteTicket", NoKey, [uuid |-> uuid], 0,
                           DeleteTicketError(uuid), NoResult)
    /\ UNCHANGED <<invoices, budgets, procs, chatMessages, workspaces, workspaceUsers, userRoles, features,
                   phases, stories, bounties, now>>

\* ---------------------------------------------------------- ticket groups

\* the group of no ticket, and a string uuid.Parse rejects
GhostGroupUuid == "G9"
InvalidUuid == "invalid-uuid"
WellFormedGroupUuids == {"G1", "G2", GhostGroupUuid}
GroupUuids == WellFormedGroupUuids \cup {InvalidUuid}

\* uuid.Parse of the URL parameter: TRUE when it fails
ParseUuidError(s) == s \notin WellFormedGroupUuids

\* a query without its WHERE clause
DbGetTicketsByGroupAll(ticketGroupUUID) ==
    {tickets[u] : u \in DOMAIN tickets}

\* db.GetTicketsByGroup: Where("ticket_group = ?", ticketGroupUUID).Find
DbGetTicketsByGroup(ticketGroupUUID) ==
    {tickets[u] : u \in {v \in DOMAIN tickets :
                            tickets[v].ticket_group = ticketGroupUUID}}

GetTicketsByGroupCode(caller, group_uuid) ==
    IF caller = NoKey THEN 401
    ELSE IF ParseUuidError(group_uuid) THEN 400
    ELSE 200

GetTicketsByGroup ==
    /\ \E caller \in {NoKey, "alice"}, group_uuid \in GroupUuids :
         LET code == GetTicketsByGroupCode(caller, group_uuid) IN
         last' = Served("GetTicketsByGroup", caller, [group_uuid |-> group_uuid],
                        code, "",
                        IF code = 200 THEN DbGetTicketsByGroup(group_uuid)
                        ELSE NoResult)
    /\ UNCHANGED <<invoices, budgets, procs, chatMessages, workspaces, workspaceUsers, userRoles, features,
                   phases, stories, tickets, bounties, now>>

\* --------------------------------------------------------- ticket review

\* the decoded request of ProcessTicketReview
ReviewBody(ticketUUID, ticketName) ==
    [ticketUUID |-> ticketUUID, ticketDescription |-> "Updated Description",
     ticketName |-> ticketName, sourceWebsocket |-> "source-session-id"]

ReviewBodies ==
    {ReviewBody(u, n) : u \in {"", "U1", GhostTicketUuid},
                        n \in {"", "Updated Test Ticket"}}
    \cup {NilBody, Malformed}

\* the ticket of the review: the stored one with the description of the
\* payload, and its name when the payload gives one
ReviewedTicket(ticket, body) ==
    [ticket EXCEPT !.description = body.ticketDescription,
                   !.name = IF body.ticketName = "" THEN @ ELSE body.ticketName]

\* a handler that fails the request when the session is not reached
ReviewDeliveredCodeStrict(delivered) == IF delivered THEN 200 ELSE 500

\* the answer once the ticket is stored: 200 whether or not the websocket
\* session was reached
ReviewDeliveredCode(delivered) == 200

WebsocketError(body, delivered) ==
    IF delivered THEN "" ELSE "client not found: " \o body.sourceWebsocket

\* the status of the answer before anything is stored, 0 to go on
ReviewEarlyCode(body) ==
    IF body \in {NilBody, Malformed} THEN 400
    ELSE IF body.ticketUUID = "" THEN 400
    ELSE IF GetTicketError(body.ticketUUID) THEN 404
    ELSE 0

ProcessTicketReview ==
    /\ \E body \in ReviewBodies, delivered \in BOOLEAN :
         LET req == [body |-> body, delivered |-> delivered]
             early == ReviewEarlyCode(body) IN
         IF early /= 0
         THEN /\ last' = Served("ProcessTicketReview", NoKey, req, early, "", NoResult)
              /\ UNCHANGED <<tickets, now>>
         ELSE /\ now < MaxClock
              /\ now' = now + 1
              /\ tickets' = UpsertedTickets(
                                ReviewedTicket(GetTicket(body.ticketUUID), body), now')
              /\ last' = Served("ProcessTicketReview", NoKey, req,
                                ReviewDeliveredCode(delivered), "",
                                [ticket |-> tickets'[body.ticketUUID],
                                 websocket_error |-> WebsocketError(body, delivered)])
    /\ UNCHANGED <<invoices, budgets, procs, chatMessages, workspaces, workspaceUsers, userRoles, features,
                   phases, stories, bounties>>

\* ------------------------------------------------------------------ chat

\* the outcome of every call a chat handler makes outside itself: TRUE when
\* the call succeeds (the store calls, the workflow engine, the two
\* websocket notifications)
AllCallsSucceed ==
    [brief |-> TRUE, history |-> TRUE, added |-> TRUE, dispatched |-> TRUE,
     sent1 |-> TRUE, sent2 |-> TRUE]

CallOutcomes ==
    {AllCallsSucceed}
    \cup {[AllCallsSucceed EXCEPT ![f] = FALSE] : f \in DOMAIN AllCallsSucceed}
    \cup {[AllCallsSucceed EXCEPT !.sent1 = FALSE, !.sent2 = FALSE]}

\* the decoded request of SendMessage
SendMessageBody(workspace_uuid) ==
    [chat_id |-> "chat-1", message |-> "hello", source_websocket_id |-> "ws-1",
     workspace_uuid |-> workspace_uuid]

SendMessageBodies ==
    {SendMessageBody(w) : w \in {"", SuppliedWorkspaceUuid}} \cup {Malformed}

\* db.AddChatMessage and db.UpdateChatMessage
DbAddChatMessage(rows, message) == rows @@ (message.id :> message)
DbUpdateChatMessage(rows, message) == [rows EXCEPT ![message.id] = message]

\* a handler that leaves the message of a failed dispatch as it was
FailedMessageUnmarked(message) == message

\* a handler that blanks the text of the message of a failed dispatch
FailedMessageRewritten(message) ==
    [message EXCEPT !.status = "error", !.message = ""]

\* createdMessage.Status = "error"
FailedMessage(message) == [message EXCEPT !.status = "error"]

\* a handler that fails the request when a notification fails
NotifiedCodeStrict(sent1, sent2) == IF sent1 /\ sent2 THEN 200 ELSE 500

\* a failed SendTicketMessage is logged; the answer is 200 either way
NotifiedCode(sent1, sent2) == 200

\* the message SendMessage builds at time `at`
UserMessage(body, at) ==
    [id |-> Xid(at), chat_id |-> body.chat_id, message |-> body.message,
     role |-> "user", timestamp |-> at, status |-> "sending", source |-> "user"]

\* the calls SendMessage makes outside itself, in the order it makes them
AddCall(message) ==
    [call |-> "AddChatMessage", id |-> message.id, status |-> message.status]
UpdateCall(message) ==
    [call |-> "UpdateChatMessage", id |-> message.id, status |-> message.status]
DispatchCall(message) ==
    [call |-> "sendToStakwork", id |-> message.id, status |-> message.status]
NotifyCall(action, message) ==
    [call |-> "SendTicketMessage:" \o action, id |-> message.id,
     status |-> message.status]

\* the response of a chat handler: status, data of the body, calls made
ChatServed(op, caller, body, env, code, data, calls) ==
    Served(op, caller, [body |-> body, env |-> env], code, "",
           [data |-> data, calls |-> calls])

\* the status SendMessage answers with before it builds the message
SendMessageEarlyCode(body, env) ==
    IF body = Malformed THEN 400
    ELSE IF body.workspace_uuid = "" THEN 400
    ELSE IF ~env.brief THEN 500
    ELSE IF ~env.history THEN 500
    ELSE 0

\* the handler never looks at the caller key
SendMessage ==
    /\ \E caller \in Callers, body \in SendMessageBodies, env \in CallOutcomes :
         LET early == SendMessageEarlyCode(body, env) IN
         IF early /= 0
         THEN /\ last' = ChatServed("SendMessage", caller, body, env, early, NoResult, <<>>)
              /\ UNCHANGED <<chatMessages, now>>
         ELSE /\ now < MaxClock
              /\ now' = now + 1
              /\ LET message == UserMessage(body, now') IN
                 IF ~env.added
                 THEN /\ chatMessages' = chatMessages
                      /\ last' = ChatServed("SendMessage", caller, body, env, 500,
                                            NoResult, <<AddCall(message)>>)
                 ELSE IF ~env.dispatched
                 THEN /\ chatMessages' =
                            DbUpdateChatMessage(DbAddChatMessage(chatMessages, message),
                                                FailedMessage(message))
                      /\ last' = ChatServed("SendMessage", caller, body, env, 500,
                                            NoResult,
                                            <<AddCall(message), DispatchCall(message),
                                              UpdateCall(FailedMessage(message))>>)
                 ELSE /\ chatMessages' = DbAddChatMessage(chatMessages, message)
                      /\ last' = ChatServed("SendMessage", caller, body, env,
                                            NotifiedCode(env.sent1, env.sent2), message,
                                            <<AddCall(message), DispatchCall(message),
                                              NotifyCall("swrun", message),
                                              NotifyCall("process", message)>>)
    /\ UNCHANGED <<invoices, budgets, procs, workspaces, workspaceUsers, userRoles, features, phases,
                   stories, tickets, bounties>>

\* the decoded request of ProcessChatResponse
ChatResponseBody(chat_id) ==
    [chat_id |-> chat_id, message_id |-> "xid-1", response |-> "answer",
     source_websocket_id |-> "ws-1"]

ChatResponseBodies ==
    {ChatResponseBody(c) : c \in {"", "chat-1"}} \cup {Malformed}

\* the outcomes ProcessChatResponse can meet: it stores and notifies once
ResponseOutcomes ==
    {env \in CallOutcomes : env.brief /\ env.history /\ env.dispatched /\ env.sent2}

\* the message ProcessChatResponse builds at time `at`
AssistantMessage(body, at) ==
    [id |-> Xid(at), chat_id |-> body.chat_id, message |-> body.response,
     role |-> "assistant", timestamp |-> at, status |-> "sent", source |-> "agent"]

ProcessChatResponse ==
    /\ \E caller \in Callers, body \in ChatResponseBodies, env \in ResponseOutcomes :
         IF body = Malformed \/ body.chat_id = ""
         THEN /\ last' = ChatServed("ProcessChatResponse", caller, body, env, 400,
                                    NoResult, <<>>)
              /\ UNCHANGED <<chatMessages, now>>
         ELSE /\ now < MaxClock
              /\ now' = now + 1
              /\ LET message == AssistantMessage(body, now') IN
                 IF ~env.added
                 THEN /\ chatMessages' = chatMessages
                      /\ last' = ChatServed("ProcessChatResponse", caller, body, env,
                                            500, NoResult, <<AddCall(message)>>)
                 ELSE /\ chatMessages' = DbAddChatMessage(chatMessages, message)
                      /\ last' = ChatServed("ProcessChatResponse", caller, body, env,
                                            NotifiedCode(env.sent1, TRUE), message,
                                            <<AddCall(message),
                                              NotifyCall("message", message)>>)
    /\ UNCHANGED <<invoices, budgets, procs, workspaces, workspaceUsers, userRoles, features, phases,
                   stories, tickets, bounties>>

\* ------------------------------------------------------- budget invoices

BudgetType == "BUDGET"
SecondWorkspaceUuid == "W2"
WorkspaceOrder == <<SuppliedWorkspaceUuid, SecondWorkspaceUuid>>
InvoiceOrder == <<"I1", "I2", "I3">>     \* the order the store returns rows in

InvoiceRow(payment_request, workspace_uuid, type, status, amount) ==
    [payment_request |-> payment_request, workspace_uuid |-> workspace_uuid,
     type |-> type, status |-> status, amount |-> amount]

\* what the lightning node and the expiry of the payment request say of an
\* invoice while one request is served: getLightningInvoice fails ("error"),
\* reports it settled, or reports it unsettled, expired or not ("open")
Replies == {"settled", "open", "expired", "error"}
PollReplies == [DOMAIN invoices -> Replies]      \* one answer for every stored invoice
PolledWorkspaceUuids == {SuppliedWorkspaceUuid, SecondWorkspaceUuid}

\* db.GetWorkspaceInvoices(uuid): the invoice rows of the workspace
GetWorkspaceInvoices(rows, uuid) ==
    LET ids == SelectSeq(InvoiceOrder,
                   LAMBDA i : i \in DOMAIN rows /\ rows[i].workspace_uuid = uuid) IN
    [k \in 1..Len(ids) |-> rows[ids[k]]]

\* GetAllUserWorkspaces(pubkey): the workspaces the user created, then the
\* workspace of every membership row of the user
GetAllUserWorkspaces(pubkey) ==
    LET created == SelectSeq(WorkspaceOrder,
                       LAMBDA u : u \in DOMAIN workspaces
                                  /\ workspaces[u].owner_pubkey = pubkey)
        assigned == SelectSeq(workspaceUsers, LAMBDA m : m.owner_pubkey = pubkey) IN
    created \o [k \in 1..Len(assigned) |->
                   GetWorkspaceByUuid(assigned[k].workspace_uuid).uuid]

\* the test of a settled invoice with the status check left out
BudgetDueAnyStatus(inv) == inv.type = BudgetType

\* !inv.Status && inv.Type == "BUDGET"
BudgetDue(inv) == ~inv.status /\ inv.type = BudgetType

\* db.ProcessUpdateBudget(inv): the amount of the invoice is added to the
\* budget of its workspace and the invoice is marked as paid
ProcessUpdateBudget(st, inv) ==
    [st EXCEPT !.budgets[inv.workspace_uuid] = @ + inv.amount,
               !.invoices[inv.payment_request].status = TRUE]

\* db.DeleteInvoice(payment_request)
DeleteInvoice(st, payment_request) ==
    [st EXCEPT !.invoices =
        [i \in DOMAIN st.invoices \ {payment_request} |-> st.invoices[i]]]

\* the body of the loop over the invoices, for an invoice the node answered for
PollInvoice(st, inv, reply) ==
    IF reply = "settled"
    THEN IF BudgetDue(inv) THEN ProcessUpdateBudget(st, inv) ELSE st
    ELSE IF reply = "expired" THEN DeleteInvoice(st, inv.payment_request)
    ELSE st

\* the loop over the invoices of one workspace; it stops at the first invoice
\* the node fails for
RECURSIVE PollInvoices(_, _, _)
PollInvoices(st, invs, replies) ==
    IF st.err \/ invs = <<>> THEN st
    ELSE IF replies[Head(invs).payment_request] = "error" THEN [st EXCEPT !.err = TRUE]
    ELSE PollInvoices(PollInvoice(st, Head(invs), replies[Head(invs).payment_request]),
                      Tail(invs), replies)

\* the loop over the workspaces of the caller: the invoices of each workspace
\* are read when its turn comes
RECURSIVE PollWorkspaces(_, _, _)
PollWorkspaces(st, uuids, replies) ==
    IF st.err \/ uuids = <<>> THEN st
    ELSE PollWorkspaces(
             PollInvoices(st, GetWorkspaceInvoices(st.invoices, Head(uuids)), replies),
             Tail(uuids), replies)

InvoiceStore == [invoices |-> invoices, budgets |-> budgets, err |-> FALSE]

PollBudgetInvoices ==
    /\ \E caller \in Callers, uuid \in PolledWorkspaceUuids, replies \in PollReplies :
         LET req == [uuid |-> uuid, replies |-> replies]
             st == PollInvoices(InvoiceStore, GetWorkspaceInvoices(invoices, uuid),
                                replies) IN
         IF caller = NoKey
         THEN /\ last' = Served("PollBudgetInvoices", caller, req, 401, "", NoResult)
              /\ UNCHANGED <<invoices, budgets>>
         ELSE /\ invoices' = st.invoices
              /\ budgets' = st.budgets
              /\ last' = Served("PollBudgetInvoices", caller, req,
                                IF st.err THEN 403 ELSE 200, "", NoResult)
    /\ UNCHANGED <<procs, chatMessages, workspaces, workspaceUsers, userRoles, features,
                   phases, stories, tickets, bounties, now>>

PollUserWorkspacesBudget ==
    /\ \E caller \in Callers, replies \in PollReplies :
         LET req == [uuid |-> "", replies |-> replies]
             st == PollWorkspaces(InvoiceStore, GetAllUserWorkspaces(caller), replies) IN
         IF caller = NoKey
         THEN /\ last' = Served("PollUserWorkspacesBudget", caller, req, 401, "", NoResult)
              /\ UNCHANGED <<invoices, budgets>>
         ELSE /\ invoices' = st.invoices
              /\ budgets' = st.budgets
              /\ last' = Served("PollUserWorkspacesBudget", caller, req,
                                IF st.err THEN 403 ELSE 200, "", NoResult)
    /\ UNCHANGED <<procs, chatMessages, workspaces, workspaceUsers, userRoles, features,
                   phases, stories, tickets, bounties, now>>

\* ---------------------------------------------------------------- metrics

MetricPrices == {1, 2, 3}
MetricDates == 1..2
PaymentDateRanges == [start_date : MetricDates, end_date : MetricDates]
MetricWorkspaces == {"", SuppliedWorkspaceUuid, SecondWorkspaceUuid}

\* the columns of a bounty row the metric queries read
MetricBounty(workspace_uuid, price, created, paid) ==
    [workspace_uuid |-> workspace_uuid, price |-> price, created |-> created,
     paid |-> paid]

MetricBounties ==
    {MetricBounty(w, p, c, paid) :
        w \in {SuppliedWorkspaceUuid, SecondWorkspaceUuid}, p \in MetricPrices,
        c \in {1, 2}, paid \in BOOLEAN}

\* Where("created >= ?", r.StartDate).Where("created <= ?", r.EndDate), and
\* Where("workspace_uuid", workspace) when a workspace is given
InDateRange(b, r, workspace) ==
    /\ b.created >= r.start_date
    /\ b.created <= r.end_date
    /\ workspace /= "" => b.workspace_uuid = workspace

\* Select("SUM(price)") scanned into a uint that starts at 0
RECURSIVE SumPrice(_)
SumPrice(rows) ==
    IF rows = <<>> THEN 0 ELSE Head(rows).price + SumPrice(Tail(rows))

TotalSatsPosted(r, workspace) ==
    SumPrice(SelectSeq(bounties, LAMBDA b : InDateRange(b, r, workspace)))

TotalSatsPaid(r, workspace) ==
    SumPrice(SelectSeq(bounties, LAMBDA b : b.paid /\ InDateRange(b, r, workspace)))

\* a float64 is held as its number of halves: float64(value) of a uint, and
\* math.Round, which rounds a half away from zero
Float64(value) == 2 * value
MathRound(halves) == (halves + 1) \div 2

\* the quotient rounded to the nearest integer instead of cut off
PercentageValueNearest(satsPaid, satsPosted) ==
    (2 * satsPaid * 100 + satsPosted) \div (2 * satsPosted)

\* (satsPaid * 100) / satsPosted on uints
PercentageValue(satsPaid, satsPosted) == (satsPaid * 100) \div satsPosted

SatsPaidPercentage(r, workspace) ==
    LET satsPosted == TotalSatsPosted(r, workspace)
        satsPaid == TotalSatsPaid(r, workspace) IN
    IF satsPaid /= 0 /\ satsPosted /= 0
    THEN MathRound(Float64(PercentageValue(satsPaid, satsPosted)))
    ELSE 0

MetricRequest(r, workspace) == [range |-> r, workspace |-> workspace]

GetSatsPaidPercentage ==
    /\ \E r \in PaymentDateRanges, workspace \in MetricWorkspaces :
         last' = Served("SatsPaidPercentage", NoKey, MetricRequest(r, workspace), 0, "",
                        SatsPaidPercentage(r, workspace))
    /\ UNCHANGED <<invoices, budgets, procs, chatMessages, workspaces, workspaceUsers,
                   userRoles, features, phases, stories, tickets, bounties, now>>

\* ------------------------------------------------------- specifications

NoRequest == Served("none", NoKey, NoResult, 0, "", NoResult)

\* the empty store of a fresh deployment
InitEmpty ==
    /\ workspaces = EmptyStore
    /\ workspaceUsers = <<>>
    /\ userRoles = {}
    /\ features = EmptyStore
    /\ phases = EmptyStore
    /\ stories = EmptyStore
    /\ tickets = EmptyStore
    /\ bounties = <<>>
    /\ chatMessages = EmptyStore
    /\ invoices = EmptyStore
    /\ budgets = EmptyStore
    /\ procs = AllIdle
    /\ now = 0
    /\ last = NoRequest

\* the rows the handler tests set up before they call a feature or ticket
\* handler: a workspace of alice's, features in it, a phase in each feature
SeedWorkspaces ==
    SuppliedWorkspaceUuid :>
        [id |-> 1, uuid |-> SuppliedWorkspaceUuid, owner_pubkey |-> "alice",
         name |-> NameA, description |-> ShortDescription, github |-> GithubOk]

SeedFeature(id, uuid) ==
    [id |-> id, uuid |-> uuid, workspace_uuid |-> SuppliedWorkspaceUuid,
     name |-> "test-feature", created_by |-> "alice", updated_by |-> "",
     feat_status |-> "active"]

SeedPhase(uuid, feature_uuid) ==
    [uuid |-> uuid, feature_uuid |-> feature_uuid, name |-> "test-phase",
     created_by |-> "alice", updated_by |-> "alice"]

InitWorkspace == InitEmpty

InitFeature ==
    /\ workspaces = SeedWorkspaces
    /\ workspaceUsers = <<>>
    /\ userRoles = {}
    /\ features = EmptyStore
    /\ phases = EmptyStore
    /\ stories = EmptyStore
    /\ tickets = EmptyStore
    /\ bounties = <<>>
    /\ chatMessages = EmptyStore
    /\ invoices = EmptyStore
    /\ budgets = EmptyStore
    /\ procs = AllIdle
    /\ now = 0
    /\ last = NoRequest

InitTicket ==
    /\ workspaces = SeedWorkspaces
    /\ workspaceUsers = <<>>
    /\ userRoles = {}
    /\ features = ("F1" :> SeedFeature(1, "F1")) @@ ("F2" :> SeedFeature(2, "F2"))
    /\ phases = ("P1" :> SeedPhase("P1", "F1")) @@ ("P2" :> SeedPhase("P2", "F2"))
    /\ stories = EmptyStore
    /\ tickets = EmptyStore
    /\ bounties = <<>>
    /\ chatMessages = EmptyStore
    /\ invoices = EmptyStore
    /\ budgets = EmptyStore
    /\ procs = AllIdle
    /\ now = 0
    /\ last = NoRequest

SeedStory(uuid, feature_uuid) ==
    [uuid |-> uuid, description |-> "Test story", feature_uuid |-> feature_uuid,
     created |-> 1]

\* the set-up of the delete tests: a stored row of every kind
InitDelete ==
    /\ workspaces = SeedWorkspaces
    /\ workspaceUsers = <<>>
    /\ userRoles = {}
    /\ features = ("F1" :> SeedFeature(1, "F1")) @@ ("F2" :> SeedFeature(2, "F2"))
    /\ phases = ("P1" :> SeedPhase("P1", "F1")) @@ ("P2" :> SeedPhase("P2", "F2"))
    /\ stories = ("S1" :> SeedStory("S1", "F1")) @@ ("S2" :> SeedStory("S2", "F1"))
    /\ tickets = ("U1" :> NewTicketRow([FullTicket1 EXCEPT !.uuid = "U1"], 1))
                 @@ ("U2" :> NewTicketRow([FullTicket2 EXCEPT !.uuid = "U2"], 1))
    /\ bounties = <<>>
    /\ chatMessages = EmptyStore
    /\ invoices = EmptyStore
    /\ budgets = EmptyStore
    /\ procs = AllIdle
    /\ now = 1
    /\ last = NoRequest

\* the set-up of the feature handler tests: a workspace with its features
InitPhase ==
    /\ workspaces = SeedWorkspaces
    /\ workspaceUsers = <<>>
    /\ userRoles = {}
    /\ features = ("F1" :> SeedFeature(1, "F1")) @@ ("F2" :> SeedFeature(2, "F2"))
    /\ phases = EmptyStore
    /\ stories = EmptyStore
    /\ tickets = EmptyStore
    /\ bounties = <<>>
    /\ chatMessages = EmptyStore
    /\ invoices = EmptyStore
    /\ budgets = EmptyStore
    /\ procs = AllIdle
    /\ now = 0
    /\ last = NoRequest

NextPhase == UpdateFeatureStatus \/ CreateOrEditFeaturePhase
\* two workspaces, bob a member of the first and the owner of the second; an
\* open budget invoice, a budget invoice that was applied already, and an
\* open invoice of another type
InitInvoice ==
    /\ workspaces = SeedWorkspaces @@
          (SecondWorkspaceUuid :>
              [id |-> 2, uuid |-> SecondWorkspaceUuid, owner_pubkey |-> "bob",
               name |-> NameA, description |-> ShortDescription, github |-> GithubOk])
    /\ workspaceUsers = <<[owner_pubkey |-> "bob",
                           workspace_uuid |-> SuppliedWorkspaceUuid]>>
    /\ userRoles = {}
    /\ features = EmptyStore
    /\ phases = EmptyStore
    /\ stories = EmptyStore
    /\ tickets = EmptyStore
    /\ bounties = <<>>
    /\ chatMessages = EmptyStore
    /\ invoices = ("I1" :> InvoiceRow("I1", SuppliedWorkspaceUuid, BudgetType, FALSE, 1))
               @@ ("I2" :> InvoiceRow("I2", SuppliedWorkspaceUuid, BudgetType, TRUE, 2))
               @@ ("I3" :> InvoiceRow("I3", SecondWorkspaceUuid, "KEYSEND", FALSE, 4))
    /\ budgets = (SuppliedWorkspaceUuid :> 2) @@ (SecondWorkspaceUuid :> 0)
    /\ procs = AllIdle
    /\ now = 0
    /\ last = NoRequest

NextInvoice == PollBudgetInvoices \/ PollUserWorkspacesBudget
\* every table of at most MaxBounties bounty rows
InitMetrics ==
    /\ workspaces = EmptyStore
    /\ workspaceUsers = <<>>
    /\ userRoles = {}
    /\ features = EmptyStore
    /\ phases = EmptyStore
    /\ stories = EmptyStore
    /\ tickets = EmptyStore
    /\ bounties \in UNION {[1..n -> MetricBounties] : n \in 0..MaxBounties}
    /\ chatMessages = EmptyStore
    /\ invoices = EmptyStore
    /\ budgets = EmptyStore
    /\ procs = AllIdle
    /\ now = 0
    /\ last = NoRequest

NextMetrics == GetSatsPaidPercentage
NextMemberRace == CreateUserStep
NextRoles == CreateWorkspaceUser \/ AddUserRoles
NextRace == UpsertStep
NextDelete == DeleteFeature \/ DeleteFeaturePhase \/ DeleteStory \/ DeleteTicket
NextGroup == CreateOrEditTicket \/ GetTicketsByGroup
NextReview == CreateOrEditTicket \/ ProcessTicketReview
NextChat == SendMessage \/ ProcessChatResponse
NextWorkspace == CreateOrEditWorkspace \/ UpdateWorkspace
NextMembers == CreateWorkspaceUser
NextFeature == CreateOrEditFeatures \/ GetFeatureStories
NextTicket ==
    \/ CreateOrEditTicket
    \/ UpdateTicket
    \/ TicketToBounty
    \/ GetBountiesByFeatureAndPhaseUuid

SpecWorkspace == InitWorkspace /\ [][NextWorkspace]_vars
SpecMembers == InitFeature /\ [][NextMembers]_vars
SpecFeature == InitFeature /\ [][NextFeature]_vars
SpecPhase == InitPhase /\ [][NextPhase]_vars
SpecMemberRace == InitFeature /\ [][NextMemberRace]_vars
SpecInvoice == InitInvoice /\ [][NextInvoice]_vars
SpecMetrics == InitMetrics /\ [][NextMetrics]_vars
SpecRoles == InitFeature /\ [][NextRoles]_vars
SpecRace == InitTicket /\ [][NextRace]_vars
SpecDelete == InitDelete /\ [][NextDelete]_vars
SpecGroup == InitTicket /\ [][NextGroup]_vars
SpecReview == InitTicket /\ [][NextReview]_vars
SpecChat == InitEmpty /\ [][NextChat]_vars
SpecTicket == InitTicket /\ [][NextTicket]_vars

\* ------------------------------------------------------- ticket upserts

\* the request just served was a ticket upsert
UpsertServed == last.op \in {"CreateOrEditTicket", "UpdateTicket"}

\* the seven statuses a ticket may carry
EnumeratedStatuses ==
    {"draft", "ready", "in-progress", "test", "deploy", "pay", "completed"}

\* C4: a ticket upsert (CreateOrEditTicket or UpdateTicket) whose ticket
\* carries the nil UUID fails with "ticket UUID is required" and leaves the
\* ticket table as it was; no row is ever stored under the nil UUID or under
\* a key other than the UUID its payload carried.
C4_NilUuidUpsertRejected ==
    [][(UpsertServed' /\ last'.req.uuid = NilUuid)
         => /\ last'.err = ErrUuidRequired
            /\ tickets' = tickets
            /\ \A u \in DOMAIN tickets' : u /= NilUuid /\ tickets'[u].uuid = u]_vars

\* a nil-UUID upsert was rejected while tickets were stored
C4_Witness ==
    /\ UpsertServed
    /\ last.req.uuid = NilUuid
    /\ last.req.name /= ""
    /\ last.err = ErrUuidRequired
    /\ DOMAIN tickets /= {}

\* C5: an upsert of an already stored ticket keeps the stored value of every
\* field the payload omits (ticket group, feature UUID, phase UUID, name,
\* sequence, description, status, version, author); a field changes only to
\* the value the payload supplies, the update timestamp is set, and the
\* creation timestamp, the key and every other ticket stay as they were.
C5_OmittedFieldsKept ==
    [][(UpsertServed' /\ last'.err = "" /\ last'.req.uuid \in DOMAIN tickets)
         => /\ DOMAIN tickets' = DOMAIN tickets
            /\ \A f \in TicketPayloadFields :
                 /\ IsZeroField(last'.req, f)
                      => tickets'[last'.req.uuid][f] = tickets[last'.req.uuid][f]
                 /\ tickets'[last'.req.uuid][f]
                      \in {tickets[last'.req.uuid][f], last'.req[f]}
            /\ tickets'[last'.req.uuid].uuid = last'.req.uuid
            /\ tickets'[last'.req.uuid].created_at = tickets[last'.req.uuid].created_at
            /\ tickets'[last'.req.uuid].updated_at = now'
            /\ \A v \in DOMAIN tickets \ {last'.req.uuid} : tickets'[v] = tickets[v]]_vars

\* a ticket created in full was then updated with a description and a status
\* only: its name, feature and phase are the ones it was created with
C5_Witness ==
    /\ UpsertServed
    /\ last.err = ""
    /\ last.req.uuid = "U1"
    /\ last.req.name = "" /\ last.req.feature_uuid = ""
    /\ last.req.description = "Updated Description"
    /\ "U1" \in DOMAIN tickets
    /\ tickets["U1"].name = "Test Ticket"
    /\ tickets["U1"].feature_uuid = "F1"
    /\ tickets["U1"].phase_uuid = "P1"
    /\ tickets["U1"].description = "Updated Description"
    /\ tickets["U1"].status = ReadyTicket
    /\ tickets["U1"].updated_at > tickets["U1"].created_at

\* C6: a ticket upsert that carries a UUID and supplies a status outside the
\* seven enumerated values fails with "invalid ticket status" and leaves
\* every stored ticket, the addressed one included, unchanged.
C6_InvalidStatusRejected ==
    [][(/\ UpsertServed'
        /\ last'.req.uuid /= NilUuid
        /\ last'.req.status /= ""
        /\ last'.req.status \notin EnumeratedStatuses)
         => /\ last'.err = ErrInvalidStatus
            /\ tickets' = tickets]_vars

\* an upsert with status "archived" addressed a stored ticket and was rejected
C6_Witness ==
    /\ UpsertServed
    /\ last.req.uuid \in DOMAIN tickets
    /\ last.req.status = "archived"
    /\ last.err = ErrInvalidStatus
    /\ tickets[last.req.uuid].status \in EnumeratedStatuses

\* ------------------------------------------------------ ticket to bounty

\* the request just served was a ticket-to-bounty conversion that succeeded
Converted == last.op = "TicketToBounty" /\ last.code = 201

\* C7: converting a stored ticket creates one bounty whose title,
\* description, phase and feature are the ticket's, whose workspace is the
\* workspace of the ticket's feature, whose type is "freelance_job_request",
\* price 21, show true and owner the caller; the response is 201 with the
\* non-zero id of that bounty, and GetBounty of that id has the ticket's name
\* as its title.
C7_BountyDerivedFromTicket ==
    [][Converted'
         => /\ last'.req \in DOMAIN tickets
            /\ last'.result /= 0
            /\ last'.result \in (1..Len(bounties')) \ (1..Len(bounties))
            /\ bounties'[last'.result].title = tickets[last'.req].name
            /\ bounties'[last'.result].description = tickets[last'.req].description
            /\ bounties'[last'.result].phase_uuid = tickets[last'.req].phase_uuid
            /\ bounties'[last'.result].feature_uuid = tickets[last'.req].feature_uuid
            /\ tickets[last'.req].feature_uuid \in DOMAIN features
                 => bounties'[last'.result].workspace_uuid
                      = features[tickets[last'.req].feature_uuid].workspace_uuid
            /\ bounties'[last'.result].type = "freelance_job_request"
            /\ bounties'[last'.result].price = 21
            /\ bounties'[last'.result].show = TRUE
            /\ bounties'[last'.result].owner_id = last'.caller]_vars

\* bob converted the ticket "Updated Test Ticket" of feature F2 and phase P2:
\* the bounty read back by the returned id carries that title and workspace
C7_Witness ==
    /\ Converted
    /\ last.caller = "bob"
    /\ last.result /= 0
    /\ tickets[last.req].name = "Updated Test Ticket"
    /\ tickets[last.req].description = "Updated Description"
    /\ tickets[last.req].feature_uuid = "F2"
    /\ GetBounty(last.result).title = "Updated Test Ticket"
    /\ GetBounty(last.result).workspace_uuid = SuppliedWorkspaceUuid
    /\ GetBounty(last.result).phase_uuid = "P2"

\* C8: TicketToBounty called by an authenticated caller with a ticket UUID
\* that matches no stored ticket answers 404 and leaves the bounties as they
\* were.
C8_UnknownTicketNotFound ==
    [][(/\ last'.op = "TicketToBounty"
        /\ last'.caller /= NoKey
        /\ last'.req /= ""
        /\ last'.req \notin DOMAIN tickets)
         => /\ last'.code = 404
            /\ bounties' = bounties]_vars

\* a conversion of an unknown ticket was refused while bounties were stored
C8_Witness ==
    /\ last.op = "TicketToBounty"
    /\ last.caller /= NoKey
    /\ last.req = GhostTicketUuid
    /\ last.code = 404
    /\ DOMAIN tickets /= {}
    /\ Len(bounties) >= 1

\* C9: every successful conversion inserts exactly one new bounty under an
\* id no stored bounty had, keeps the bounties stored before, and leaves the
\* ticket table unchanged; converting a ticket that was converted before
\* adds another bounty.
C9_ConversionNotIdempotent ==
    [][Converted'
         => /\ tickets' = tickets
            /\ Len(bounties') = Len(bounties) + 1
            /\ SubSeq(bounties', 1, Len(bounties)) = bounties
            /\ last'.result = Len(bounties')
            /\ last'.result \notin 1..Len(bounties)]_vars

\* one ticket was converted twice: two bounties with distinct ids carry its
\* content, and the ticket is still the one that was converted
C9_Witness ==
    /\ Converted
    /\ last.result = 2
    /\ Len(bounties) = 2
    /\ last.req \in DOMAIN tickets
    /\ \A i \in 1..2 :
         /\ bounties[i].title = tickets[last.req].name
         /\ bounties[i].description = tickets[last.req].description
         /\ bounties[i].feature_uuid = tickets[last.req].feature_uuid
         /\ bounties[i].owner_id = last.caller
    /\ tickets[last.req].updated_at < bounties[1].created

\* ------------------------------------------- bounties of a feature phase

\* the request just served was an authenticated bounty query
BountyQueryServed ==
    last.op = "GetBountiesByFeatureAndPhaseUuid" /\ last.caller /= NoKey

WorkspaceWriteServed ==
    /\ last.op \in {"CreateOrEditWorkspace", "UpdateWorkspace"}
    /\ last.req \in PlainWorkspaceBodies

\* C1: a request to CreateOrEditWorkspace or UpdateWorkspace that addresses a
\* stored workspace and comes from a caller who is neither its stored owner
\* nor a holder of the EditOrg role on it is answered 401 and leaves the
\* workspaces as they were, whatever owner key the body carries.
C1_OnlyOwnerOrEditorModifies ==
    [][(/\ WorkspaceWriteServed'
        /\ last'.req.uuid \in DOMAIN workspaces
        /\ last'.caller /= workspaces[last'.req.uuid].owner_pubkey
        /\ [owner_pubkey |-> last'.caller, workspace_uuid |-> last'.req.uuid,
            role |-> EditOrg] \notin userRoles)
         => /\ last'.code = 401
            /\ workspaces' = workspaces]_vars

\* C2: a request without a caller key is answered 401 whatever its body
\* holds: never 406 or 400 for a body that does not decode.
C2_UnauthenticatedAlways401 ==
    (last.op /= "none" /\ last.caller = NoKey) => last.code = 401

\* --------------------------------------------------------------- features

\* C3: CreateOrEditFeatures called by an authenticated caller with a body
\* that decodes and carries a name and a workspace UUID, where no stored
\* workspace has that UUID, answers 401 and leaves the features as they were.
C3_UnknownWorkspaceRejected ==
    [][(/\ last'.op = "CreateOrEditFeatures"
        /\ last'.caller /= NoKey
        /\ last'.req /= Malformed
        /\ last'.req.name /= ""
        /\ last'.req.workspace_uuid /= ""
        /\ last'.req.workspace_uuid \notin DOMAIN workspaces)
         => /\ last'.code = 401
            /\ features' = features]_vars

\* a feature for an unknown workspace was refused while features were stored
C3_Witness ==
    /\ last.op = "CreateOrEditFeatures"
    /\ last.caller /= NoKey
    /\ last.req /= Malformed
    /\ last.req.name = "test-feature"
    /\ last.req.workspace_uuid = GhostWorkspaceUuid
    /\ GhostWorkspaceUuid \notin DOMAIN workspaces
    /\ last.code = 401
    /\ DOMAIN features /= {}

\* -------------------------------------------------------- feature stories

\* the request just served was a story payload that decodes and names a
\* feature that is not stored
UnknownFeatureStoriesServed ==
    /\ last.op = "GetFeatureStories"
    /\ last.req /= Malformed
    /\ last.req.feature_uuid \notin DOMAIN features

C12_UnknownFeatureStories406 ==
    [][UnknownFeatureStoriesServed'
         => /\ last'.code = 406
            /\ stories' = stories]_vars

\* --------------------------------------------------------- feature status

\* C13: UpdateFeatureStatus called by an authorized caller with an empty
\* UUID parameter, without body, with a body that is not JSON, or with a
\* status outside the allowed set (the empty status of an empty body
\* included) answers 400 and leaves the status of every feature unchanged.
C13_BadStatusRequestRejected ==
    [][(/\ last'.op = "UpdateFeatureStatus"
        /\ last'.caller \in People
        /\ \/ last'.req.uuid = ""
           \/ last'.req.body = NilBody
           \/ last'.req.body = Malformed
           \/ last'.req.body.status \notin {"active", "archived"})
         => /\ last'.code = 400
            /\ \A u \in DOMAIN features :
                 features'[u].feat_status = features[u].feat_status]_vars

\* a feature that had been archived was sent the status "invalid_status":
\* the request was answered 400 and the feature is still archived
C13_Witness ==
    /\ last.op = "UpdateFeatureStatus"
    /\ last.caller = "alice"
    /\ last.req.uuid = SuppliedFeatureUuid
    /\ last.req.body = [status |-> "invalid_status"]
    /\ last.code = 400
    /\ features[SuppliedFeatureUuid].feat_status = ArchivedFeature

\* ---------------------------------------------------------- feature phases

\* C14: CreateOrEditFeaturePhase called by an authenticated caller with a
\* body whose feature UUID matches no stored feature answers 401 and neither
\* creates nor modifies a phase.
C14_UnknownFeaturePhaseRejected ==
    [][(/\ last'.op = "CreateOrEditFeaturePhase"
        /\ last'.caller /= NoKey
        /\ last'.req /= Malformed
        /\ last'.req.feature_uuid \notin DOMAIN features)
         => /\ last'.code = 401
            /\ phases' = phases]_vars

\* C15: every successful CreateOrEditFeaturePhase leaves the caller as the
\* phase's updater; it leaves the caller as creator when the phase UUID was
\* not stored before, and the creator stored before otherwise, whatever the
\* body holds.
C15_CreatorKeptUpdaterLatest ==
    [][(last'.op = "CreateOrEditFeaturePhase" /\ last'.code = 201)
         => /\ last'.result.uuid \in DOMAIN phases'
            /\ phases'[last'.result.uuid].updated_by = last'.caller
            /\ phases'[last'.result.uuid].created_by =
                 IF last'.result.uuid \in DOMAIN phases
                 THEN phases[last'.result.uuid].created_by
                 ELSE last'.caller]_vars

\* SendMessage got as far as building its message and storing it
MessageStored ==
    /\ last'.op = "SendMessage"
    /\ SendMessageEarlyCode(last'.req.body, last'.req.env) = 0
    /\ last'.req.env.added

\* position of the first call of that name in the calls of the response, 0
\* when there is none
CallAt(calls, name) ==
    IF \E i \in 1..Len(calls) : calls[i].call = name
    THEN CHOOSE i \in 1..Len(calls) :
             /\ calls[i].call = name
             /\ \A j \in 1..(i - 1) : calls[j].call /= name
    ELSE 0

\* C16: SendMessage stores the user message with status "sending" before it
\* calls the workflow engine; when that call fails the stored message has
\* status "error", the answer is 500, and the row is still in the store.
C16_FailedDispatchMarksError ==
    [][MessageStored =>
         LET calls == last'.result.calls
             id == Xid(now') IN
         /\ CallAt(calls, "AddChatMessage") = 1
         /\ calls[1].status = "sending"
         /\ CallAt(calls, "sendToStakwork") = 2
         /\ id \notin DOMAIN chatMessages
         /\ id \in DOMAIN chatMessages'
         /\ chatMessages'[id].role = "user"
         /\ \A m \in DOMAIN chatMessages : chatMessages'[m] = chatMessages[m]
         /\ (~last'.req.env.dispatched =>
                /\ last'.code = 500
                /\ chatMessages'[id].status = "error")
         /\ (last'.req.env.dispatched => chatMessages'[id].status = "sending")
    ]_vars

C16_Witness ==
    /\ last.op = "SendMessage"
    /\ last.code = 500
    /\ ~last.req.env.dispatched
    /\ Len(last.result.calls) = 3
    /\ \E id \in DOMAIN chatMessages :
          /\ chatMessages[id].status = "error"
          /\ last.result.calls[3] = UpdateCall(chatMessages[id])

\* a chat handler stored its message and, for SendMessage, the workflow
\* engine accepted the payload: the notifications are what is left
NotificationsLeft ==
    \/ MessageStored /\ last'.req.env.dispatched
    \/ /\ last'.op = "ProcessChatResponse"
       /\ last'.req.body /= Malformed
       /\ last'.req.body.chat_id /= ""
       /\ last'.req.env.added

\* C17: once the message is stored (and, for SendMessage, dispatched) the
\* answer is 200 with the stored message, whatever the websocket
\* notifications do; exactly that message is added and no other row changes.
C17_NotificationFailureIgnored ==
    [][NotificationsLeft =>
         LET id == Xid(now') IN
         /\ last'.code = 200
         /\ id \notin DOMAIN chatMessages
         /\ DOMAIN chatMessages' = DOMAIN chatMessages \cup {id}
         /\ last'.result.data = chatMessages'[id]
         /\ chatMessages'[id].status
                = (IF last'.op = "SendMessage" THEN "sending" ELSE "sent")
         /\ \A m \in DOMAIN chatMessages : chatMessages'[m] = chatMessages[m]
    ]_vars

C17_Witness ==
    /\ last.op = "SendMessage"
    /\ last.req.env.dispatched
    /\ ~last.req.env.sent1
    /\ ~last.req.env.sent2
    /\ last.code = 200
    /\ last.result.data \in {chatMessages[id] : id \in DOMAIN chatMessages}
    /\ \E id \in DOMAIN chatMessages :
          /\ chatMessages[id].role = "assistant"
          /\ chatMessages[id].status = "sent"

ReviewServed == last'.op = "ProcessTicketReview"

\* C18: a review of a stored ticket stores the description of the payload,
\* and the name when one is given, and is answered 200 whether or not the
\* websocket session is reached; a failed delivery shows only as the
\* websocket_error of the answer.  No body, a malformed body or no ticket
\* UUID is answered 400 and an unknown ticket UUID 404, no ticket changed.
C18_ReviewStoredDespiteWebsocket ==
    [][ReviewServed =>
         LET body == last'.req.body IN
         IF body = NilBody \/ body = Malformed
         THEN last'.code = 400 /\ tickets' = tickets
         ELSE IF body.ticketUUID = ""
         THEN last'.code = 400 /\ tickets' = tickets
         ELSE IF body.ticketUUID \notin DOMAIN tickets
         THEN last'.code = 404 /\ tickets' = tickets
         ELSE LET u == body.ticketUUID IN
              /\ last'.code = 200
              /\ DOMAIN tickets' = DOMAIN tickets
              /\ tickets'[u].description = body.ticketDescription
              /\ tickets'[u].name = (IF body.ticketName = "" THEN tickets[u].name
                                     ELSE body.ticketName)
              /\ \A f \in DOMAIN ZeroTicket \ {"description", "name", "updated_at"} :
                     tickets'[u][f] = tickets[u][f]
              /\ \A v \in DOMAIN tickets \ {u} : tickets'[v] = tickets[v]
              /\ last'.result.ticket = tickets'[u]
              /\ (last'.result.websocket_error /= "") = ~last'.req.delivered
    ]_vars

C18_Witness ==
    /\ last.op = "ProcessTicketReview"
    /\ ~last.req.delivered
    /\ last.code = 200
    /\ last.result.websocket_error = "client not found: source-session-id"
    /\ last.req.body.ticketName = ""
    /\ tickets["U1"].description = "Updated Description"
    /\ tickets["U1"].name = "Test Ticket"

\* a delete that got past the check of the caller key
DeleteServed ==
    \/ last'.op \in {"DeleteFeature", "DeleteFeaturePhase", "DeleteStory"}
       /\ last'.caller /= NoKey
    \/ last'.op = "DeleteTicket"

\* the row the delete names was stored before the step
DeleteTargetStored ==
    LET req == last'.req IN
    CASE last'.op = "DeleteFeature" -> req.uuid \in DOMAIN features
      [] last'.op = "DeleteFeaturePhase" ->
             /\ req.phase_uuid \in DOMAIN phases
             /\ phases[req.phase_uuid].feature_uuid = req.feature_uuid
      [] last'.op = "DeleteStory" ->
             /\ req.story_uuid \in DOMAIN stories
             /\ stories[req.story_uuid].feature_uuid = req.feature_uuid
      [] last'.op = "DeleteTicket" -> req.uuid \in DOMAIN tickets

DeleteSucceeded(served) ==
    IF served.op = "DeleteTicket" THEN served.err = "" ELSE served.code = 200

DeleteNotFound(served) ==
    IF served.op = "DeleteTicket" THEN served.err = "ticket not found"
    ELSE served.code = 404 /\ served.err /= ""

\* C19: a delete of a feature, phase, story or ticket that is not stored
\* reports not found and changes no table, and a delete of a stored one
\* succeeds and removes it; so of two deletes of one stored story, served one
\* right after the other in either order, exactly one succeeds and the other
\* reports that no story was found.
C19_DeleteOfMissingRowNotFound ==
    [][DeleteServed =>
         /\ (~DeleteTargetStored =>
                /\ DeleteNotFound(last')
                /\ UNCHANGED <<features, phases, stories, tickets>>)
         /\ (DeleteTargetStored =>
                /\ DeleteSucceeded(last')
                /\ <<features, phases, stories, tickets>>'
                       /= <<features, phases, stories, tickets>>)
         /\ (/\ last.op = "DeleteStory"
             /\ last'.op = "DeleteStory"
             /\ last.caller /= NoKey
             /\ last.req = last'.req
             /\ last.code = 200
             => /\ last'.code = 404
                /\ last'.err = "no story found to delete"
                /\ stories' = stories)
    ]_vars

C19_Witness ==
    /\ last.op = "DeleteStory"
    /\ last.caller /= NoKey
    /\ last.req.story_uuid = "S1"
    /\ last.req.feature_uuid = "F1"
    /\ last.code = 404
    /\ last.err = "no story found to delete"
    /\ "S1" \notin DOMAIN stories
    /\ "S2" \in DOMAIN stories

\* a group query of a caller with a key
GroupQueryServed ==
    /\ last.op = "GetTicketsByGroup"
    /\ last.caller /= NoKey

\* C20: for a caller with a key, a query by a well-formed group UUID is
\* answered 200 with exactly the stored tickets of that group, the empty
\* list when no ticket carries it; a query is answered 400 only when the
\* UUID is malformed.
C20_GroupQueryReturnsGroupTickets ==
    GroupQueryServed =>
        LET g == last.req.group_uuid IN
        /\ (g \in {"G1", "G2", "G9"} =>
               /\ last.code = 200
               /\ \A u \in DOMAIN tickets :
                      (tickets[u] \in last.result) <=> (tickets[u].ticket_group = g)
               /\ \A t \in last.result : \E u \in DOMAIN tickets : t = tickets[u]
               /\ ((\A u \in DOMAIN tickets : tickets[u].ticket_group /= g)
                       => last.result = {}))
        /\ (g = "invalid-uuid" <=> last.code = 400)

C20_Witness ==
    /\ GroupQueryServed
    /\ last.req.group_uuid = "G1"
    /\ last.code = 200
    /\ Cardinality(last.result) = 1
    /\ Cardinality(DOMAIN tickets) = 2
    /\ \E u \in DOMAIN tickets : tickets[u].ticket_group = "G2"

\* ------------------------------------------------------- workspace fields

\* the body decodes, its owner is the caller and every field passes the
\* checks CreateOrEditWorkspace makes before it looks the workspace up
CreationWellFormed(caller, body) ==
    /\ caller /= NoKey
    /\ body /= Malformed
    /\ body.owner_pubkey = caller
    /\ body.id = 0
    /\ body.name.len + body.name.pad > 0
    /\ body.name.len <= 20
    /\ body.description.len + body.description.pad <= 120
    /\ body.github \in {"", "https://github.com/test"}

\* C21: CreateOrEditWorkspace for a workspace that is not stored, with a
\* well-formed body of its owner whose name without the surrounding spaces
\* is the name of a stored workspace, answers 409 and stores nothing.
C21_DuplicateNameConflict ==
    [][(/\ last'.op = "CreateOrEditWorkspace"
        /\ CreationWellFormed(last'.caller, last'.req)
        /\ last'.req.uuid \notin DOMAIN workspaces
        /\ \E u \in DOMAIN workspaces :
               workspaces[u].name = [last'.req.name EXCEPT !.pad = 0])
         => /\ last'.code = 409
            /\ workspaces' = workspaces]_vars

C21_Witness ==
    /\ last.op = "CreateOrEditWorkspace"
    /\ last.code = 409
    /\ last.req.name.pad > 0
    /\ last.req.uuid \notin DOMAIN workspaces
    /\ \E u \in DOMAIN workspaces : workspaces[u].name.text = last.req.name.text

\* C22: every stored workspace has a non-empty name of at most 20 characters
\* and a description of at most 120 characters.
C22_StoredWorkspaceFieldsInRange ==
    \A u \in DOMAIN workspaces :
        /\ workspaces[u].name.len + workspaces[u].name.pad > 0
        /\ workspaces[u].name.len + workspaces[u].name.pad <= 20
        /\ workspaces[u].description.len + workspaces[u].description.pad <= 120

\* ------------------------------------------------------ concurrent upserts

\* request p has just run its write on a ticket it found stored
WroteStored(p) ==
    /\ procs[p].pc = "looked"
    /\ procs[p].found
    /\ procs'[p].pc /= "looked"

\* the columns a payload sets: the ones it carries a non-zero value for
SetBy(t) == {f \in DOMAIN t \ {"uuid", "created_at"} : t[f] /= ZeroTicket[f]}

\* C23: an upsert of a stored ticket is applied whatever version it carries:
\* its write is never refused, and right after it every column the payload
\* sets holds the payload's value.  So of two upserts of one ticket whose
\* steps interleave, the stored value of every column both set is that of
\* the one that wrote last.
C23_LastWriteWinsNoVersionCheck ==
    [][\A p \in Processes :
         /\ WroteStored(p) =>
               /\ procs'[p].pc = "written"
               /\ \A f \in SetBy(procs[p].t) :
                      tickets'[procs[p].t.uuid][f] = procs[p].t[f]
         /\ (/\ procs'[p].pc = "written"
             /\ procs'[Other(p)].pc = "written"
             /\ procs'[p].found
             /\ procs'[Other(p)].found
             /\ procs'[p].seq > procs'[Other(p)].seq)
            => \A f \in SetBy(procs'[p].t) \cap SetBy(procs'[Other(p)].t) :
                   tickets'[procs'[p].t.uuid][f] = procs'[p].t[f]
    ]_vars

\* both requests found the ticket stored, request 1 wrote while request 2
\* was between its read and its write, and request 2 wrote last with the
\* lower version, which is the stored one
C23_Witness ==
    /\ procs[1].pc = "written"
    /\ procs[2].pc = "written"
    /\ procs[1].found
    /\ procs[2].found
    /\ procs[1].overlap
    /\ procs[2].seq = 2
    /\ procs[2].t.version = 1
    /\ procs[1].t.version = 2
    /\ tickets["U1"].version = 1
    /\ tickets["U1"].name = procs[2].t.name
    /\ tickets["U1"].name /= procs[1].t.name

\* ------------------------------------------------- tickets and their feature

\* C24: whenever a ticket row is created, a feature with its feature UUID
\* and a phase with its phase UUID are stored; and every bounty created from
\* a ticket carries the workspace UUID of a stored feature, never the empty
\* one.
C24_TicketCreatedUnderStoredFeature ==
    [][/\ \A u \in DOMAIN tickets' \ DOMAIN tickets :
             /\ tickets'[u].feature_uuid \in DOMAIN features
             /\ tickets'[u].phase_uuid \in DOMAIN phases
       /\ \A i \in (Len(bounties) + 1)..Len(bounties') :
             /\ bounties'[i].workspace_uuid /= ""
             /\ \E f \in DOMAIN features :
                    features[f].workspace_uuid = bounties'[i].workspace_uuid
    ]_vars

\* ---------------------------------------------------------- ticket status

\* C25: the status of every stored ticket is one of the seven enumerated
\* values; an insert without a status stores draft and an update without a
\* status keeps the stored one.
C25_StoredStatusEnumerated ==
    [][/\ \A u \in DOMAIN tickets' : tickets'[u].status \in EnumeratedStatuses
       /\ (UpsertServed' /\ last'.err = "" /\ last'.req.status = "") =>
              LET u == last'.req.uuid IN
              tickets'[u].status = (IF u \in DOMAIN tickets THEN tickets[u].status
                                    ELSE "draft")
    ]_vars

\* an update without a status was applied to a ticket that is not a draft
C25_Witness ==
    /\ UpsertServed
    /\ last.err = ""
    /\ last.req.status = ""
    /\ last.req.name /= ""
    /\ tickets[last.req.uuid].status = "completed"
    /\ tickets[last.req.uuid].name = last.req.name

\* ---------------------------------------------------------- chat messages

\* a chat handler got as far as storing its message
ChatMessageAdded ==
    \/ MessageStored
    \/ /\ last'.op = "ProcessChatResponse"
       /\ last'.req.body /= Malformed
       /\ last'.req.body.chat_id /= ""
       /\ last'.req.env.added

\* the text the request asks to store
RequestText(req) ==
    IF "response" \in DOMAIN req.body THEN req.body.response ELSE req.body.message

\* C26: chat messages are append-only.  No step deletes a message or changes
\* a stored one; a chat handler that stores its message adds exactly one
\* row, with the text and chat id of the request and the role of the
\* handler; and the only update of a row is the one SendMessage makes to the
\* message it has just added, from status sending to status error.
C26_ChatMessagesAppendOnly ==
    [][/\ \A m \in DOMAIN chatMessages :
             /\ m \in DOMAIN chatMessages'
             /\ chatMessages'[m] = chatMessages[m]
       /\ Cardinality(DOMAIN chatMessages' \ DOMAIN chatMessages)
              = (IF ChatMessageAdded THEN 1 ELSE 0)
       /\ \A m \in DOMAIN chatMessages' \ DOMAIN chatMessages :
             /\ chatMessages'[m].message = RequestText(last'.req)
             /\ chatMessages'[m].chat_id = last'.req.body.chat_id
             /\ chatMessages'[m].role
                    = (IF last'.op = "SendMessage" THEN "user" ELSE "assistant")
             /\ LET calls == last'.result.calls IN
                \A i \in 1..Len(calls) :
                    calls[i].call = "UpdateChatMessage" =>
                        /\ last'.op = "SendMessage"
                        /\ calls[i].id = m
                        /\ calls[i].status = "error"
                        /\ calls[1] = [call |-> "AddChatMessage", id |-> m,
                                       status |-> "sending"]
    ]_vars

\* a message marked error sits between two messages left as they were stored
C26_Witness ==
    /\ Cardinality(DOMAIN chatMessages) = 3
    /\ chatMessages["xid-1"].role = "assistant"
    /\ chatMessages["xid-2"].status = "error"
    /\ chatMessages["xid-3"].status = "sending"
    /\ last.op = "SendMessage"
    /\ last.code = 200

\* -------------------------------------------------------------- user roles

\* the caller is the owner of the workspace or holds the role on it
Holds(caller, uuid, role) ==
    \/ /\ uuid \in DOMAIN workspaces
       /\ workspaces[uuid].owner_pubkey = caller
    \/ [owner_pubkey |-> caller, workspace_uuid |-> uuid, role |-> role] \in userRoles

\* every condition of the claim holds for the request
RolesRequestAllowed(caller, req) ==
    /\ caller /= NoKey
    /\ Holds(caller, req.uuid, "ADD ROLES")
    /\ caller /= req.user
    /\ \E i \in 1..Len(workspaceUsers) :
           /\ workspaceUsers[i].owner_pubkey = req.user
           /\ workspaceUsers[i].workspace_uuid = req.uuid
    /\ \A i \in 1..Len(req.body.roles) :
           /\ req.body.roles[i] \in {"EDIT ORGANIZATION", "ADD USER", "ADD ROLES"}
           /\ Holds(caller, req.uuid, req.body.roles[i])

\* C27: AddUserRoles changes the stored roles, and answers 200, only when
\* the caller holds AddRoles on the workspace, is not the target user, the
\* target is a member of the workspace and every role of the request is a
\* known role the caller holds on the workspace; a request that decodes and
\* fails one of these is answered 401 and stores none of its roles.
C27_RolesGrantedOnlyByHolder ==
    [][last'.op = "AddUserRoles" =>
         LET req == last'.req IN
         IF req.body = Malformed
         THEN last'.code /= 200 /\ userRoles' = userRoles
         ELSE /\ (last'.code = 200 \/ userRoles' /= userRoles)
                     => RolesRequestAllowed(last'.caller, req)
              /\ ~RolesRequestAllowed(last'.caller, req)
                     => /\ last'.code = 401
                        /\ userRoles' = userRoles
    ]_vars

\* bob, a member who holds AddRoles but not EditOrg, was refused when he
\* asked for both for carol, and carol still holds nothing
C27_Witness ==
    /\ last.op = "AddUserRoles"
    /\ last.caller = "bob"
    /\ last.req.user = "carol"
    /\ last.req.body /= Malformed
    /\ last.req.body.roles = <<"ADD ROLES", "EDIT ORGANIZATION">>
    /\ last.code = 401
    /\ [owner_pubkey |-> "bob", workspace_uuid |-> "W1", role |-> "ADD ROLES"] \in userRoles
    /\ \E i \in 1..Len(workspaceUsers) : workspaceUsers[i].owner_pubkey = "carol"
    /\ \A r \in userRoles : r.owner_pubkey /= "carol"

\* C28: after any sequence of CreateWorkspaceUser requests, two of them for
\* the same user and workspace with interleaved steps included, every (user
\* public key, workspace uuid) membership is stored at most once.
C28_MembershipStoredOnce ==
    \A i, j \in 1..Len(workspaceUsers) :
        workspaceUsers[i] = workspaceUsers[j] => i = j

\* the amounts of a set of invoice rows, added up
RECURSIVE SumAmounts(_, _)
SumAmounts(rows, ids) ==
    IF ids = {} THEN 0
    ELSE LET i == CHOOSE x \in ids : TRUE IN rows[i].amount + SumAmounts(rows, ids \ {i})

\* the invoices a step marks as paid
MarkedPaid ==
    {i \in DOMAIN invoices \cap DOMAIN invoices' :
        ~invoices[i].status /\ invoices'[i].status}

\* C29: across any number of PollBudgetInvoices and PollUserWorkspacesBudget
\* calls, a budget grows by exactly the amounts of the invoices the call marks
\* as paid, and these were reported settled, are of type BUDGET and had status
\* false; an invoice with status true adds nothing again; an invoice is
\* deleted only when it was reported unsettled and expired; nothing else of
\* an invoice changes, and a call without caller changes nothing.
C29_BudgetAppliedOncePerSettledInvoice ==
    [][last'.op \in {"PollBudgetInvoices", "PollUserWorkspacesBudget"} =>
         /\ DOMAIN invoices' \subseteq DOMAIN invoices
         /\ DOMAIN budgets' = DOMAIN budgets
         /\ \A i \in MarkedPaid :
                /\ last'.req.replies[i] = "settled"
                /\ invoices[i].type = BudgetType
         /\ \A w \in DOMAIN budgets :
                budgets'[w] = budgets[w]
                    + SumAmounts(invoices,
                                 {i \in MarkedPaid : invoices[i].workspace_uuid = w})
         /\ \A i \in DOMAIN invoices \ DOMAIN invoices' :
                last'.req.replies[i] = "expired"
         /\ \A i \in DOMAIN invoices' :
                /\ invoices[i].status => invoices'[i] = invoices[i]
                /\ invoices'[i] = [invoices[i] EXCEPT !.status = invoices'[i].status]
         /\ last'.code = 401 => invoices' = invoices /\ budgets' = budgets]_vars

\* a poll that was told both budget invoices of the workspace are settled:
\* the open one is paid and counted, the paid one is not counted again
C29_Witness ==
    /\ last.op = "PollBudgetInvoices"
    /\ last.code = 200
    /\ last.req.uuid = SuppliedWorkspaceUuid
    /\ DOMAIN last.req.replies = {"I1", "I2", "I3"}
    /\ last.req.replies["I1"] = "settled"
    /\ last.req.replies["I2"] = "settled"
    /\ "I1" \in DOMAIN invoices /\ invoices["I1"].status
    /\ budgets[SuppliedWorkspaceUuid] = 3

\* C30: for every date range and workspace filter, SatsPaidPercentage is the
\* integer quotient floor(100 * TotalSatsPaid / TotalSatsPosted) when both
\* totals are non-zero and 0 otherwise; it never exceeds 100, the paid total
\* being at most the posted total of the same range; and the query leaves
\* every table unchanged.
C30_PercentageIsFloorOfRatio ==
    [][last'.op = "SatsPaidPercentage" =>
         LET paid == TotalSatsPaid(last'.req.range, last'.req.workspace)
             posted == TotalSatsPosted(last'.req.range, last'.req.workspace)
             pct == last'.result IN
         /\ paid <= posted
         /\ (paid /= 0 /\ posted /= 0) =>
                /\ pct * posted <= 100 * paid
                /\ 100 * paid < (pct + 1) * posted
         /\ (paid = 0 \/ posted = 0) => pct = 0
         /\ pct <= 100
         /\ UNCHANGED <<workspaces, workspaceUsers, userRoles, features, phases, stories,
                        tickets, bounties, chatMessages, invoices, budgets>>]_vars

\* a query with a workspace filter over a range that holds a paid bounty of 2
\* and an unpaid one of 1 of that workspace: two thirds, cut off to 66
C30_Witness ==
    /\ last.op = "SatsPaidPercentage"
    /\ last.req.workspace = SuppliedWorkspaceUuid
    /\ TotalSatsPaid(last.req.range, last.req.workspace) = 2
    /\ TotalSatsPosted(last.req.range, last.req.workspace) = 3
    /\ Len(bounties) = 2
    /\ last.result = 66

====
